---------------------------- MODULE Spec2Model ----------------------------
(***************************************************************************)
(* Model of the incremental synchronisation engine of aipriceaction-data:  *)
(* the merge of an archive with freshly fetched rows, the per-client rate  *)
(* limiter, the retrying HTTP fetch, and the per-symbol sync run of        *)
(* main_get_ticker_data.py.                                                *)
(*                                                                         *)
(* The module holds several specifications over one set of variables; each *)
(* specification moves its own variables and leaves the others alone.      *)
(*   MergeSpec      update_last_row_and_append_new_data as a pure function *)
(*   RateLimitSpec  _enforce_rate_limit called at arbitrary times          *)
(*   FetchSpec      one _make_request                                      *)
(*   DetectSpec     the two adjustment checks as functions of their frames *)
(*   NormalizeSpec  normalize_price_data as a pure function                *)
(*   Spec           one run of main() over the ticker list                 *)
(*   FairSpec       Spec with the run always taking its next step          *)
(***************************************************************************)
EXTENDS Integers, Sequences, FiniteSets, TLC

VARIABLES
    \* --- MergeSpec: the two arguments and the results of merge
    m_pc, existing_df, new_df, m_result, m_again,
    \* --- RateLimitSpec: one client's limiter and the wall clock
    clock, request_timestamps, grants,
    \* --- FetchSpec: one _make_request call
    f_pc, attempt, http_log, f_result, permits, delay,
    \* --- FetchSpec: the get_history call around it
    g_pc, g_request, g_result,
    \* --- Spec: one run of main() over tickers_sorted
    args, store0,
    store, chunk_store, s_pc, idx,
    full_history_set, batch_results, batch_requests,
    client, ctx, stock_df, tried, calls, chunk, all_chunks, verdicts,
    stats, handled, credited,
    \* --- DetectSpec: one adjustment check on an archive and fresh rows
    d_pc, d_ticker, d_existing, d_fresh, d_path, d_verdict,
    \* --- NormalizeSpec: normalize_price_data applied once and again
    n_pc, n_ticker, n_df, n_once, n_twice,
    \* --- InfoSpec: one run of main() of main_get_info.py
    i_pc, i_idx, i_clock, i_stamps, i_before, preferred_client, rate_limited,
    primary_name, company_data, financial_data, data_source, previous

mergeVars == <<m_pc, existing_df, new_df, m_result, m_again>>
rlVars    == <<clock, request_timestamps, grants>>
fetchVars == <<f_pc, attempt, http_log, f_result, permits, delay,
               g_pc, g_request, g_result>>
runVars    == <<args, store0>>
planVars   == <<full_history_set, batch_results, batch_requests>>
tickerVars == <<client, ctx, stock_df, tried, calls, chunk, all_chunks, verdicts>>
tallyVars  == <<stats, handled, credited>>
detectVars == <<d_pc, d_ticker, d_existing, d_fresh, d_path, d_verdict>>
normVars   == <<n_pc, n_ticker, n_df, n_once, n_twice>>
infoVars   == <<i_pc, i_idx, i_clock, i_stamps, i_before, preferred_client,
                rate_limited, primary_name, company_data, financial_data,
                data_source, previous>>
pureVars   == <<detectVars, normVars, infoVars>>
syncVars   == <<runVars, store, chunk_store, s_pc, idx, planVars, tickerVars, tallyVars>>
vars       == <<mergeVars, rlVars, fetchVars, syncVars, pureVars>>

---------------------------------------------------------------------------
(* Bounds of the model *)

\* timestamps of rows are 1..MaxTime
MaxTime == 3
\* a fresh batch holds at most this many rows
MaxBatchLen == 3

Times  == 1..MaxTime
\* two distinct row contents are enough to tell a replaced row from a kept one
Closes == {"old", "new"}
Rows   == [time : Times, close : Closes]

---------------------------------------------------------------------------
(* Data frames: sequences of rows *)

Max(a, b) == IF a >= b THEN a ELSE b
Min(a, b) == IF a <= b THEN a ELSE b

SeqMax(s) == CHOOSE x \in {s[i] : i \in 1..Len(s)} :
                 \A j \in 1..Len(s) : s[j] <= x
SeqMin(s) == CHOOSE x \in {s[i] : i \in 1..Len(s)} :
                 \A j \in 1..Len(s) : x <= s[j]

\* df['time'] as a sequence
TimesOf(df) == [i \in 1..Len(df) |-> df[i].time]

\* df[df['time'] <op> t]
RowsAt(df, t)     == SelectSeq(df, LAMBDA r : r.time = t)
RowsNotAt(df, t)  == SelectSeq(df, LAMBDA r : r.time # t)
RowsFrom(df, t)   == SelectSeq(df, LAMBDA r : r.time >= t)
RowsBefore(df, t) == SelectSeq(df, LAMBDA r : r.time < t)

\* df.sort_values(by='time'): rows with equal time keep their order; the
\* row at position i goes to the position counted by the rows before it
SortByTime(df) ==
    LET Position(i) ==
            Cardinality({j \in 1..Len(df) :
                            \/ df[j].time < df[i].time
                            \/ df[j].time = df[i].time /\ j <= i})
    IN  IF df = <<>> THEN <<>>
        ELSE [k \in 1..Len(df) |-> df[CHOOSE i \in 1..Len(df) : Position(i) = k]]

NoDupTimes(df) == \A i, j \in 1..Len(df) : i # j => df[i].time # df[j].time
StrictlyAscending(df) == \A i \in 1..Len(df) - 1 : df[i].time < df[i + 1].time

\* the ascending sequence of the rows of a set with one row per time
RECURSIVE SetToSeq(_)
SetToSeq(S) ==
    IF S = {} THEN <<>>
    ELSE LET r == CHOOSE x \in S : \A y \in S : x.time <= y.time
         IN  <<r>> \o SetToSeq(S \ {r})

\* what the archive store can hold: strictly ascending rows, one per time
Archives ==
    UNION { { SetToSeq({[time |-> t, close |-> f[t]] : t \in T}) :
                f \in [T -> Closes] } : T \in SUBSET Times }

\* what a provider can answer: any rows, repeated times and any order included
Batches == UNION { [1..n -> Rows] : n \in 0..MaxBatchLen }

---------------------------------------------------------------------------
(* IncrementalMerger: update_last_row_and_append_new_data *)

MergeKeepLast(existing, fresh) ==
    IF existing = <<>> THEN fresh
    ELSE LET latest_date == SeqMax(TimesOf(existing))
             new_rows    == RowsFrom(fresh, latest_date)
         IN  IF new_rows # <<>> THEN SortByTime(existing \o new_rows)
             ELSE existing

MergeAllFresh(existing, fresh) ==
    IF existing = <<>> THEN fresh
    ELSE LET latest_date == SeqMax(TimesOf(existing))
             kept        == IF RowsAt(fresh, latest_date) # <<>>
                            THEN RowsNotAt(existing, latest_date)
                            ELSE existing
         IN  IF fresh # <<>> THEN SortByTime(kept \o fresh)
             ELSE kept

\* the merge with the boundary row removed whether or not the batch has it
MergeDropsBoundary(existing, fresh) ==
    IF existing = <<>> THEN fresh
    ELSE LET latest_date == SeqMax(TimesOf(existing))
             kept        == RowsNotAt(existing, latest_date)
             new_rows    == RowsFrom(fresh, latest_date)
         IN  IF new_rows # <<>> THEN SortByTime(kept \o new_rows)
             ELSE kept

update_last_row_and_append_new_data(existing, fresh) ==
    IF existing = <<>> THEN fresh
    ELSE LET latest_date    == SeqMax(TimesOf(existing))
             same_date_rows == RowsAt(fresh, latest_date)
             kept           == IF same_date_rows # <<>>
                               THEN RowsNotAt(existing, latest_date)
                               ELSE existing
             new_rows       == RowsFrom(fresh, latest_date)
         IN  IF new_rows # <<>> THEN SortByTime(kept \o new_rows)
             ELSE kept

ApplyMerge ==
    /\ m_pc = "args"
    /\ m_result' = update_last_row_and_append_new_data(existing_df, new_df)
    /\ m_pc' = "merged"
    /\ UNCHANGED <<existing_df, new_df, m_again, rlVars, fetchVars, syncVars, pureVars>>

ApplyMergeAgain ==
    /\ m_pc = "merged"
    /\ m_again' = update_last_row_and_append_new_data(m_result, new_df)
    /\ m_pc' = "remerged"
    /\ UNCHANGED <<existing_df, new_df, m_result, rlVars, fetchVars, syncVars, pureVars>>

MergeNext == ApplyMerge \/ ApplyMergeAgain

\* C1: for every archive A and every fresh batch B, merge(A, B) holds no two
\* rows with the same timestamp.  Stated for the archives merge is specified
\* for, the non-empty ones (an empty archive makes merge return B as it is).
C1_MergeNoDuplicateTimestamps ==
    (m_pc = "merged" /\ existing_df # <<>>) => NoDupTimes(m_result)

\* C2: with L the largest timestamp of the archive, the rows of merge(A, B)
\* below L are exactly the rows of A below L, unchanged, whatever B holds;
\* only the boundary row at L can be replaced.
C2_MergeKeepsRowsBelowLast ==
    (m_pc = "merged" /\ existing_df # <<>>) =>
        LET L == SeqMax(TimesOf(existing_df))
        IN  /\ RowsBefore(m_result, L) = RowsBefore(existing_df, L)
            /\ \A i \in 1..Len(existing_df) :
                   existing_df[i].time < L =>
                       \E j \in 1..Len(m_result) : m_result[j] = existing_df[i]

\* a fresh batch that offers another row for a time below L and for L itself
C2_Witness ==
    /\ m_pc = "merged"
    /\ Len(existing_df) >= 2
    /\ LET L == SeqMax(TimesOf(existing_df))
       IN  /\ \E i \in 1..Len(new_df), k \in 1..Len(existing_df) :
                  /\ new_df[i].time = existing_df[k].time
                  /\ new_df[i].time < L
                  /\ new_df[i].close # existing_df[k].close
           /\ \E i \in 1..Len(new_df) :
                  /\ new_df[i].time = L
                  /\ new_df[i].close # existing_df[Len(existing_df)].close
           /\ m_result # existing_df

C23_OverlapTakesFreshRows ==
    (m_pc = "merged" /\ existing_df # <<>> /\ StrictlyAscending(new_df)) =>
        /\ NoDupTimes(m_result)
        /\ \A i \in 1..Len(new_df) :
               (\E k \in 1..Len(existing_df) :
                    existing_df[k].time = new_df[i].time) =>
                   RowsAt(m_result, new_df[i].time) = <<new_df[i]>>

\* C24: a merge whose fresh batch is empty, or holds no row at or after the
\* archive's last timestamp L, returns the archive as it was, the row at L
\* included.
C24_NothingNewKeepsArchive ==
    (/\ m_pc = "merged"
     /\ \/ new_df = <<>>
        \/ /\ existing_df # <<>>
           /\ RowsFrom(new_df, SeqMax(TimesOf(existing_df))) = <<>>) =>
        m_result = existing_df

\* a batch of older rows only, one of them differing from the archive's row
C24_Witness ==
    /\ m_pc = "merged"
    /\ Len(existing_df) >= 2
    /\ new_df # <<>>
    /\ RowsFrom(new_df, SeqMax(TimesOf(existing_df))) = <<>>
    /\ \E i \in 1..Len(new_df), k \in 1..Len(existing_df) :
           /\ new_df[i].time = existing_df[k].time
           /\ new_df[i].close # existing_df[k].close
    /\ m_result = existing_df

---------------------------------------------------------------------------
(* RateLimiter: VCIClient/TCBSClient._enforce_rate_limit.                  *)
(* The clock counts ticks of 0.1 s, the unit of the limiter's safety       *)
(* margin.                                                                 *)

\* rate_limit_per_minute of the client under test
RateLimitPerMinute == 2
\* the clock stops the model here
MaxClock == 1300
\* 60 s
WindowTicks == 600
\* the 0.1 s added to the wait
BufferTicks == 1
\* the idle time between the return of one call and the arrival of the next
Gaps == {0, 10, 300}

\* [ts for ts in self.request_timestamps if current_time - ts < 60]
PruneOld(timestamps, current_time) ==
    SelectSeq(timestamps, LAMBDA ts : current_time - ts < WindowTicks)

\* the time the call sleeps before it returns
SleepTime(timestamps, current_time) ==
    IF Len(timestamps) >= RateLimitPerMinute
    THEN LET oldest_request == SeqMin(timestamps)
             wait_time      == WindowTicks - (current_time - oldest_request)
         IN  IF wait_time > 0 THEN wait_time + BufferTicks ELSE 0
    ELSE 0

\* one call of _enforce_rate_limit made at current_time: the list it leaves
\* and the instant at which it returns
EnforceRateLimit(timestamps, current_time) ==
    LET pruned == PruneOld(timestamps, current_time)
    IN  [timestamps |-> Append(pruned, current_time),
         returns_at |-> current_time + SleepTime(pruned, current_time)]

RequestPermit(gap) ==
    LET call == EnforceRateLimit(request_timestamps, clock + gap)
    IN  /\ call.returns_at <= MaxClock
        /\ request_timestamps' = call.timestamps
        /\ clock' = call.returns_at
        /\ grants' = Append(grants, call.returns_at)
        /\ UNCHANGED <<mergeVars, fetchVars, syncVars, pureVars>>

RateLimitNext == \E gap \in Gaps : RequestPermit(gap)

\* C4: no rolling 60-second window holds more than rate_limit_per_minute
\* instants at which a permit was granted (the call returned).
C4_RateLimitBound ==
    \A i \in 1..Len(grants) :
        Cardinality({ j \in 1..Len(grants) :
                        /\ grants[j] >= grants[i]
                        /\ grants[j] < grants[i] + WindowTicks })
            <= RateLimitPerMinute

\* C30: the timestamp a rate limiter call adds to request_timestamps is the
\* time at which the call lets its caller go on, after any wait, not the time
\* at which the call was entered.
C30_TimestampIsGrantTime ==
    grants # <<>> =>
        /\ request_timestamps # <<>>
        /\ request_timestamps[Len(request_timestamps)] = grants[Len(grants)]


---------------------------------------------------------------------------
(* ResilientFetcher: VCIClient/TCBSClient._make_request *)

\* max_retries
MaxRetries == 5
\* base_delay and max_delay of _exponential_backoff, and the largest jitter
BaseDelayTicks == 10
MaxDelayTicks == 600
JitterTicks == 10

\* what one HTTP attempt can end in, by the branch of the code that handles it
RetriedOutcomes == {"200_bad_json", "403", "429", "5xx",
                    "timeout", "connection_error", "request_exception"}
HttpOutcomes == {"200_ok", "other_status"} \cup RetriedOutcomes

\* the value _make_request returns: None, or the body of the n-th attempt (n >= 1)
NoData == 0
Unset  == 0 - 1

RECURSIVE Pow2(_)
Pow2(n) == IF n = 0 THEN 1 ELSE 2 * Pow2(n - 1)

\* _exponential_backoff without the min(delay, max_delay)
ExponentialBackoffUncapped(n, jitter) ==
    BaseDelayTicks * Pow2(n) + jitter

\* _exponential_backoff(attempt) with the jitter drawn
ExponentialBackoff(n, jitter) ==
    Min(BaseDelayTicks * Pow2(n) + jitter, MaxDelayTicks)

\* entry of _make_request: the rate limiter is asked once, before the loop
MakeRequestBegin ==
    /\ g_pc = "request"
    /\ f_pc = "idle"
    /\ LET call == EnforceRateLimit(request_timestamps, clock)
       IN  /\ request_timestamps' = call.timestamps
           /\ clock' = call.returns_at
           /\ grants' = Append(grants, call.returns_at)
    /\ permits' = permits + 1
    /\ f_pc' = "loop"
    /\ UNCHANGED <<attempt, http_log, f_result, delay, g_pc, g_request, g_result,
                   mergeVars, syncVars, pureVars>>

\* the loop is left when range(max_retries) is used up
LoopEndsLate(n) == n >= MaxRetries + 1
LoopEndsAfter(n) == n >= MaxRetries

\* what the branch taken for an outcome does: "return", "break" or "continue"
BranchRetryAfterOk(outcome) ==
    IF outcome = "other_status" THEN "break" ELSE "continue"
\* the else branch without its break
BranchRetriesClientError(outcome) ==
    IF outcome = "200_ok" THEN "return" ELSE "continue"
\* the 403 branch ending the loop as the other client errors do
BranchGivesUpOn403(outcome) ==
    IF outcome = "200_ok" THEN "return"
    ELSE IF outcome \in {"other_status", "403"} THEN "break"
    ELSE "continue"
BranchOf(outcome) ==
    IF outcome = "200_ok" THEN "return"
    ELSE IF outcome = "other_status" THEN "break"
    ELSE "continue"

\* one iteration of the loop: the backoff sleep of a retry, the HTTP call and
\* the branch on its outcome
Attempt(outcome, jitter) ==
    /\ f_pc = "loop"
    /\ ~LoopEndsAfter(attempt)
    /\ delay' = IF attempt > 0 THEN ExponentialBackoff(attempt - 1, jitter) ELSE 0
    /\ clock' = clock + delay'
    /\ http_log' = Append(http_log, outcome)
    /\ CASE BranchOf(outcome) = "return" ->
                /\ f_result' = Len(http_log')
                /\ f_pc' = "returned"
                /\ attempt' = attempt
         [] BranchOf(outcome) = "break" ->
                /\ f_result' = NoData
                /\ f_pc' = "returned"
                /\ attempt' = attempt
         [] OTHER ->
                /\ attempt' = attempt + 1
                /\ f_result' = IF LoopEndsAfter(attempt + 1) THEN NoData ELSE f_result
                /\ f_pc' = IF LoopEndsAfter(attempt + 1) THEN "returned" ELSE "loop"
    /\ UNCHANGED <<request_timestamps, grants, permits, g_pc, g_request, g_result,
                   mergeVars, syncVars, pureVars>>

\* the keys of interval_map, the same in both clients
interval_map == {"1m", "5m", "15m", "30m", "1H", "1D", "1W", "1M"}

\* the calls get_history can receive: a client, an interval (one of them not
\* in interval_map) and a date range (one of them with the end before the start)
HistoryRequests ==
    [client : {"VCI", "TCBS"}, interval : {"1D", "4H"}, start : {2}, end : {1, 3}]

\* the shapes of a body that parsed as JSON: the rows, a body without the
\* expected keys, and rows in which a price is null
Payloads == {"rows", "missing_keys", "null_price"}

\* get_history up to the request: the checks made on the arguments
GetHistoryBegin ==
    /\ g_pc = "args"
    /\ f_pc = "idle"
    /\ IF g_request.interval \notin interval_map
       THEN g_pc' = "returned" /\ g_result' = "raised"
       ELSE IF g_request.client = "TCBS" /\ g_request.end < g_request.start
       THEN g_pc' = "returned" /\ g_result' = "raised"
       ELSE g_pc' = "request" /\ UNCHANGED g_result
    /\ UNCHANGED <<f_pc, attempt, http_log, f_result, permits, delay, g_request,
                   mergeVars, rlVars, syncVars, pureVars>>

\* get_history after _make_request returned: the body is turned into a frame
GetHistoryParse(payload) ==
    /\ g_pc = "request"
    /\ f_pc = "returned"
    /\ g_result' = IF f_result = NoData THEN "none"
                   ELSE IF payload = "missing_keys" THEN "none"
                   ELSE IF payload = "null_price" THEN "raised"
                   ELSE "rows"
    /\ g_pc' = "returned"
    /\ UNCHANGED <<f_pc, attempt, http_log, f_result, permits, delay, g_request,
                   mergeVars, rlVars, syncVars, pureVars>>

FetchNext ==
    \/ GetHistoryBegin
    \/ MakeRequestBegin
    \/ \E outcome \in HttpOutcomes, jitter \in {0, JitterTicks} :
           Attempt(outcome, jitter)
    \/ \E payload \in Payloads : GetHistoryParse(payload)



\* C10: one _make_request issues at most max_retries HTTP attempts, issues
\* none after the first attempt that returned 200 with a parseable body, and
\* returns the data of that attempt.
C10_BoundedAttemptsStopAtSuccess ==
    /\ Len(http_log) <= MaxRetries
    /\ \A i \in 1..Len(http_log) :
           http_log[i] = "200_ok" =>
               /\ i = Len(http_log)
               /\ f_pc = "returned"
               /\ f_result = i

\* four retried failures, then success on the last attempt allowed
C10_Witness ==
    /\ f_pc = "returned"
    /\ Len(http_log) = MaxRetries
    /\ http_log[MaxRetries] = "200_ok"
    /\ f_result = MaxRetries

\* C11: an attempt answered with a status below 500 other than 200, 403 and
\* 429 (the 4xx client errors) is the last attempt of its _make_request, which
\* returns None, however many attempts remain.
C11_ClientErrorFailsFast ==
    \A i \in 1..Len(http_log) :
        http_log[i] = "other_status" =>
            /\ i = Len(http_log)
            /\ f_pc = "returned"
            /\ f_result = NoData

\* a client error on the second attempt, three attempts still unused
C11_Witness ==
    /\ f_pc = "returned"
    /\ Len(http_log) = 2
    /\ http_log[1] = "5xx"
    /\ http_log[2] = "other_status"
    /\ f_result = NoData
    /\ Len(http_log) < MaxRetries

\* the arguments _exponential_backoff is looked at for: past the point where
\* the cap takes over
BackoffAttempts == 0..7

\* base * 2^(k-1) capped at max_delay
NominalDelay(k) == Min(BaseDelayTicks * Pow2(k - 1), MaxDelayTicks)

\* C22: the delay slept before the k-th retry of a fetch is
\* base * 2^(k-1) capped at max_delay, plus a jitter of at most 1 s under the
\* same cap; as a function of k the delay without jitter is non-decreasing
\* and with jitter it never exceeds the cap.
C22_BackoffDoublesUpToCap ==
    /\ Len(http_log) >= 2 =>
           LET k == Len(http_log) - 1
           IN  /\ delay >= NominalDelay(k)
               /\ delay <= Min(NominalDelay(k) + JitterTicks, MaxDelayTicks)
    /\ Len(http_log) < 2 => delay = 0
    /\ \A n \in BackoffAttempts :
           /\ ExponentialBackoff(n, 0) = NominalDelay(n + 1)
           /\ ExponentialBackoff(n, 0) <= ExponentialBackoff(n + 1, 0)
           /\ ExponentialBackoff(n, JitterTicks) <= MaxDelayTicks

\* the fourth retry of a fetch, slept 8 s and the full jitter
C22_Witness ==
    /\ Len(http_log) = MaxRetries
    /\ delay = 8 * BaseDelayTicks + JitterTicks
    /\ ExponentialBackoff(6, 0) = MaxDelayTicks

\* C28: an attempt that ended in 429, a 5xx status, 403, a 200 whose body
\* does not parse, or a timeout or connection error is followed by another
\* attempt whenever fewer than max_retries attempts have been made (the next
\* attempt has been made or the loop is about to make it); when it was
\* attempt number max_retries the fetch has returned None.
C28_TransientFailuresRetried ==
    \A i \in 1..Len(http_log) :
        http_log[i] \in RetriedOutcomes =>
            IF i < MaxRetries
            THEN \/ i < Len(http_log)
                 \/ /\ f_pc = "loop"
                    /\ attempt = i
                    /\ ~LoopEndsAfter(attempt)
            ELSE /\ i = Len(http_log)
                 /\ f_pc = "returned"
                 /\ f_result = NoData

\* every kind of retried failure but one met in turn, the last of them on
\* the last attempt allowed
C28_Witness ==
    /\ f_pc = "returned"
    /\ f_result = NoData
    /\ Len(http_log) = MaxRetries
    /\ http_log[1] = "429"
    /\ http_log[2] = "403"
    /\ {http_log[i] : i \in 3..MaxRetries} \subseteq RetriedOutcomes \ {"429", "403"}
    /\ Cardinality({http_log[i] : i \in 3..MaxRetries}) = MaxRetries - 2

\* C29: every HTTP attempt of a fetch, retries included, has its own rate
\* limiter call before it: a fetch that made k attempts has called the rate
\* limiter k times, which granted k permits.
C29_EveryAttemptHasItsPermit ==
    /\ Len(http_log) <= permits
    /\ f_pc = "returned" =>
           /\ permits = Len(http_log)
           /\ Len(grants) = Len(http_log)

\* C12: get_history ends with rows or with None for every request and every
\* provider outcome; it never raises to its caller.
C12_GetHistoryNeverRaises ==
    g_pc = "returned" => g_result \in {"rows", "none"}


---------------------------------------------------------------------------
(* The sync run of main_get_ticker_data.py: data *)

\* tickers_sorted: VNINDEX first, then the others
tickers_sorted == <<"VNINDEX", "FPT">>
TickerSet      == {tickers_sorted[i] : i \in 1..Len(tickers_sorted)}
\* normalize_price_data: the symbols that are not scaled
market_indices == {"VNINDEX", "HNXINDEX", "UPCOMINDEX"}

\* Days are numbered; START_DATE is day StartDay, datetime.now() falls in day
\* Today (after the midnight that stamps the day's row), END_DATE is Today.
StartDay == 1
Today == 15
\* the days of one partition (a year of hourly rows, a month of minute rows)
ChunkDays == 8

\* the dividend check downloads the last 30 days and compares the rows dated
\* from 14 to 7 days before now; it needs 3 rows on each side and 3 matches
CheckDays    == 30
TwoWeeksDays == 14
WeekDays     == 7
MinCompared  == 3
\* avg_ratio > 1.02, as the fraction ThresholdNum / ThresholdDen
ThresholdNum == 51
ThresholdDen == 50
\* --resume-days, the row count that still means "insufficient data", the
\* overlap the batch check asks for and the number of dates it looks at
ResumeDays   == 5
MinRows      == 5
MinOverlap   == 2
MaxCompared  == 3
\* prices are divided by 1000.0 and rounded to 6 decimals = 1000^-2
ScaleFactor  == 1000
MaxScale     == 2

\* A price is n * 1000^(-k).  A provider quotes a stock in units 1000 times
\* smaller than the archive's, so a raw stock price has k = -1; an index is
\* quoted in the archive's unit.
PriceLevels == {50, 49}
RawPrice(ticker, level) ==
    IF ticker \in market_indices THEN [n |-> level, k |-> 0]
    ELSE [n |-> level, k |-> 0 - 1]
ArchivedPrice(level) == [n |-> level, k |-> 0]

RECURSIVE Pow1000(_)
Pow1000(e) == IF e = 0 THEN 1 ELSE ScaleFactor * Pow1000(e - 1)

\* (x / 1000.0).round(6)
DivideByScale(price) ==
    IF price.k + 1 <= MaxScale THEN [n |-> price.n, k |-> price.k + 1]
    ELSE [n |-> (price.n + (ScaleFactor \div 2)) \div ScaleFactor, k |-> price.k]

IsPositive(price) == price.n > 0

\* ticker.upper(), for the spellings that occur
Upper(ticker) ==
    CASE ticker = "vnindex" -> "VNINDEX"
      [] ticker = "fpt"     -> "FPT"
      [] OTHER              -> ticker

price_columns == {"open", "high", "low", "close"}

\* every price column of every row divided and rounded
ScaleDown(df) ==
    [i \in 1..Len(df) |->
        [c \in DOMAIN df[i] |->
            IF c \in price_columns THEN DivideByScale(df[i][c]) ELSE df[i][c]]]

\* normalize_price_data with the ticker compared as it is spelled
NormalizeCaseSensitive(df, ticker) ==
    IF df = <<>> THEN df
    ELSE IF ticker \in market_indices THEN df
    ELSE ScaleDown(df)

\* normalize_price_data(df, ticker)
normalize_price_data(df, ticker) ==
    IF df = <<>> THEN df
    ELSE IF Upper(ticker) \in market_indices THEN df
    ELSE ScaleDown(df)

RECURSIVE SeqSum(_)
SeqSum(s) == IF s = <<>> THEN 0 ELSE Head(s) + SeqSum(Tail(s))

\* a common multiple of the numbers of a set: their product
RECURSIVE SetProduct(_)
SetProduct(S) ==
    IF S = {} THEN 1
    ELSE LET x == CHOOSE y \in S : TRUE IN x * SetProduct(S \ {x})

\* sum(price_diffs) / len(price_diffs) > 1.02 for the ratios
\* existing / api of the pairs <<existing close, api close>>, in exact
\* arithmetic: every ratio is brought to the common denominator
\* den * 1000^shift before the sum is compared
AverageRatioAboveThreshold(pairs) ==
    LET cnt   == Len(pairs)
        den   == SetProduct({pairs[i][2].n : i \in 1..cnt})
        d(i)  == pairs[i][2].k - pairs[i][1].k
        low   == SeqMin([i \in 1..cnt |-> d(i)])
        shift == IF low < 0 THEN 0 - low ELSE 0
        total == SeqSum([i \in 1..cnt |->
                     pairs[i][1].n * (den \div pairs[i][2].n)
                         * Pow1000(d(i) + shift)])
    IN  ThresholdDen * total > ThresholdNum * cnt * den * Pow1000(shift)

\* what a provider holds for a symbol: one row per day up to today, all at one
\* price level; an answer may repeat its last row
DayRows(ticker, from, to, level) ==
    [i \in 1..(to - from + 1) |->
        [time |-> from + i - 1, close |-> RawPrice(ticker, level)]]

ProviderRows(ticker, start, end, resp) ==
    LET from == Max(start, StartDay)
        to   == Min(end, Today)
        rows == IF from <= to THEN DayRows(ticker, from, to, resp.level) ELSE <<>>
    IN  IF resp.dup /\ rows # <<>> THEN Append(rows, rows[Len(rows)]) ELSE rows

\* the ways one get_history call can end: None, an exception, or rows
NoAnswer   == [kind |-> "none", level |-> 50, dup |-> FALSE]
Raises     == [kind |-> "raise", level |-> 50, dup |-> FALSE]
RowAnswers == [kind : {"rows"}, level : PriceLevels, dup : BOOLEAN]
Responses  == {NoAnswer, Raises} \cup RowAnswers
\* the answers to the request for one partition: the rows come in order
ChunkResponses == {NoAnswer, Raises} \cup {r \in RowAnswers : ~r.dup}

\* get_history(symbol, start, end): the frame, None being the empty frame
\* (no caller tells them apart)
get_history(ticker, start, end, resp) ==
    IF resp.kind = "rows" THEN ProviderRows(ticker, start, end, resp) ELSE <<>>

\* the archive of days from..to at one price level, as save_data_to_csv left it
ArchiveOf(from, to, level) ==
    [i \in 1..(to - from + 1) |->
        [time |-> from + i - 1, close |-> ArchivedPrice(level)]]

---------------------------------------------------------------------------
(* The sync run of main_get_ticker_data.py: operations *)

\* yearly (1H) or monthly (1m) partitions of START_DATE..END_DATE
NumChunks     == ((Today - StartDay) \div ChunkDays) + 1
ChunkStart(k) == StartDay + (k - 1) * ChunkDays
ChunkEnd(k)   == Min(StartDay + k * ChunkDays - 1, Today)

\* the command line: --interval, --full-download, and whether
\* START_DATE..END_DATE spans more than two years (main reads the span for
\* daily data only)
RunArgs ==
    {a \in [interval : {"1D", "1H", "1m"}, full_download : BOOLEAN,
            long_range : BOOLEAN] : a.interval = "1D" \/ ~a.long_range}

\* what a ticker's consolidated file holds when the run starts: nothing, a
\* few recent rows, the history up to two days ago, the history up to today,
\* the history up to a day older than the resume window
StoredArchives ==
    {<<>>, ArchiveOf(Today - 2, Today, 50),
     ArchiveOf(StartDay, Today - 2, 50), ArchiveOf(StartDay, Today, 50),
     ArchiveOf(StartDay, Today - ResumeDays - 2, 50)}

NoStats == [successful_tickers |-> 0, failed_tickers |-> 0, batch_successes |-> 0,
            individual_vci_successes |-> 0, tcbs_successes |-> 0]

\* download_full_data without its try/except
CatchesAllButFull(site) == site \in {"check", "chunk", "inc", "batch"}

\* the chunk loops without the try/except around a chunk's fetch
CatchesAllButChunk(site) == site \in {"check", "full", "inc", "batch"}

\* the provider call sites that sit inside a try/except of their function
Catches(site) == site \in {"check", "chunk", "full", "inc", "batch"}

\* 'VCI' in str(type(vci_client)), the type being VCIClient
VciTypeNameHasVCI == TRUE

DatesOf(df) == {df[i].time : i \in 1..Len(df)}

\* pd.merge(left, right, on='time'): one pair per matching pair of rows
RECURSIVE MergeOnTime(_, _)
MergeOnTime(left, right) ==
    IF left = <<>> THEN <<>>
    ELSE LET m == RowsAt(right, Head(left).time)
         IN  [i \in 1..Len(m) |-> <<Head(left), m[i]>>] \o MergeOnTime(Tail(left), right)

\* check_for_dividend_simple, from the api frame on: now is some time into
\* day Today, a row is stamped at the start of its day
check_for_dividend_simple(api_df, existing) ==
    LET InPeriod(r) == Today - TwoWeeksDays < r.time /\ r.time <= Today - WeekDays
        api_compare      == SelectSeq(api_df, InPeriod)
        existing_compare == SelectSeq(existing, InPeriod)
        merged           == MergeOnTime(api_compare, existing_compare)
        Priced(p)        == IsPositive(p[2].close) /\ IsPositive(p[1].close)
        priced           == SelectSeq(merged, Priced)
        price_diffs      == [i \in 1..Len(priced) |->
                                <<priced[i][2].close, priced[i][1].close>>]
    IN  /\ api_df # <<>>
        /\ Len(api_compare) >= MinCompared
        /\ Len(existing_compare) >= MinCompared
        /\ Len(merged) >= MinCompared
        /\ Len(price_diffs) >= MinCompared
        /\ AverageRatioAboveThreshold(price_diffs)

\* the dates list(overlapping_dates)[:3] can yield: a set has no order
FirstDates(dates) ==
    {looked \in SUBSET dates :
        Cardinality(looked) = Min(MaxCompared, Cardinality(dates))}

\* the loop of smart_dividend_check_and_merge over the dates it looks at
is_dividend(existing, recent, looked) ==
    \E d \in looked :
        LET recent_row   == RowsAt(recent, d)[1]
            existing_row == RowsAt(existing, d)[1]
        IN  /\ IsPositive(existing_row.close)
            /\ IsPositive(recent_row.close)
            /\ AverageRatioAboveThreshold(<<<<existing_row.close, recent_row.close>>>>)

\* a categorisation that sends a ticker without a file to the resume list
FullHistoryOnlyWhenShort(files) ==
    {t \in TickerSet : files[t] # <<>> /\ Len(files[t]) <= MinRows}

\* a categorisation that sends every ticker with a file to the resume list
FullHistoryOnlyWhenMissing(files) ==
    {t \in TickerSet : files[t] = <<>>}

\* categorize_tickers_by_data_needs: the tickers that need the full history
full_history_tickers(files) ==
    {t \in TickerSet : files[t] = <<>> \/ Len(files[t]) <= MinRows}

\* one answer of get_batch_history: falsy, an exception, or a mapping of each
\* symbol to None or to its ordered rows
BatchResponses ==
    {[kind |-> k, per |-> [t \in TickerSet |-> NoAnswer]] : k \in {"falsy", "raise"}}
    \cup {[kind |-> "map", per |-> f] :
             f \in [TickerSet -> {NoAnswer} \cup {r \in RowAnswers : ~r.dup}]}

\* vci_client.get_batch_history(symbols, start, end): symbol -> rows or None
get_batch_history(symbols, start, end, bresp) ==
    [t \in symbols |-> get_history(t, start, end, bresp.per[t])]

\* download_stock_data_batch without the normalization of the rows
BatchKeepsRaw(symbols, start, end, bresp) ==
    LET batch_data == get_batch_history(symbols, start, end, bresp)
    IN  [t \in TickerSet |->
            IF t \in symbols /\ bresp.kind = "map"
            THEN batch_data[t] ELSE <<>>]

\* download_stock_data_batch for a list that fits one batch
download_stock_data_batch(symbols, start, end, bresp) ==
    LET batch_data == get_batch_history(symbols, start, end, bresp)
    IN  [t \in TickerSet |->
            IF t \in symbols /\ bresp.kind = "map"
            THEN normalize_price_data(batch_data[t], t) ELSE <<>>]

\* a router that stops after the first individual method
NextMethodGivesUp(c) == "none"

\* process_ticker_with_fallback: what follows a method that gave no rows
NextMethod(c) == IF c = "VCI" THEN "TCBS" ELSE "none"

CurrentTicker == tickers_sorted[idx]

\* whether the full download under way was asked for by an adjusted verdict
IsResync == ctx = "smart" \/ (ctx = "indiv" /\ store[CurrentTicker] # <<>>)

Call(kind, got) ==
    [client |-> client, kind |-> kind, got |-> got, resync |-> FALSE]

\* Return with the batch path saving the recent rows when its full download
\* fails
ReturnRecentOnFailure(df) ==
    LET entry == [source |-> client, got |-> df # <<>>]
    IN  CASE ctx = "smart" ->
               /\ s_pc' = "save"
               /\ stock_df' = (IF df # <<>> THEN df ELSE batch_results[CurrentTicker])
               /\ UNCHANGED <<client, tried>>
          [] ctx = "main" ->
               /\ tried' = Append(tried, entry)
               /\ IF df = <<>> /\ client = "VCI"
                  THEN s_pc' = "full" /\ client' = "TCBS" /\ UNCHANGED stock_df
                  ELSE s_pc' = "save" /\ stock_df' = df /\ UNCHANGED client
          [] ctx = "indiv" ->
               /\ tried' = Append(tried, entry)
               /\ IF df # <<>>
                  THEN s_pc' = "save" /\ stock_df' = df /\ UNCHANGED client
                  ELSE IF NextMethod(client) = "TCBS"
                  THEN s_pc' = "indiv" /\ client' = "TCBS" /\ UNCHANGED stock_df
                  ELSE s_pc' = "save" /\ stock_df' = <<>> /\ UNCHANGED client

\* a method of the current ticker has returned df: where the run goes next
Return(df) ==
    LET entry == [source |-> client, got |-> df # <<>>]
    IN  CASE ctx = "smart" ->
               /\ s_pc' = "save"
               /\ stock_df' = (IF df # <<>> THEN df ELSE store[CurrentTicker])
               /\ UNCHANGED <<client, tried>>
          [] ctx = "main" ->
               /\ tried' = Append(tried, entry)
               /\ IF df = <<>> /\ client = "VCI"
                  THEN s_pc' = "full" /\ client' = "TCBS" /\ UNCHANGED stock_df
                  ELSE s_pc' = "save" /\ stock_df' = df /\ UNCHANGED client
          [] ctx = "indiv" ->
               /\ tried' = Append(tried, entry)
               /\ IF df # <<>>
                  THEN s_pc' = "save" /\ stock_df' = df /\ UNCHANGED client
                  ELSE IF NextMethod(client) = "TCBS"
                  THEN s_pc' = "indiv" /\ client' = "TCBS" /\ UNCHANGED stock_df
                  ELSE s_pc' = "save" /\ stock_df' = <<>> /\ UNCHANGED client

\* an exception nothing catches ends main()
Abort == s_pc' = "aborted" /\ UNCHANGED <<client, stock_df, tried>>

\* the outcome of an adjustment check, by the source whose rows it read
Verdict(adjusted) == [client |-> client, adjusted |-> adjusted]

\* one call of vci_client.get_batch_history, as download_stock_data_batch
\* makes it for a list that fits one batch
BatchRequest(symbols, start) ==
    [symbols |-> symbols, start |-> start, end |-> Today, interval |-> args.interval]

\* main 897-908
Categorize ==
    /\ s_pc = "start"
    /\ full_history_set' = IF args.full_download THEN TickerSet
                           ELSE full_history_tickers(store)
    /\ s_pc' = "batch_full"
    /\ UNCHANGED <<runVars, store, chunk_store, idx, batch_results, batch_requests, tickerVars,
                   tallyVars, mergeVars, rlVars, fetchVars, pureVars>>

\* main 917-924
BatchFullHistory ==
    /\ s_pc = "batch_full"
    /\ IF args.long_range \/ args.interval # "1D" \/ full_history_set = {}
       THEN s_pc' = "batch_resume" /\ UNCHANGED <<batch_results, batch_requests>>
       ELSE /\ batch_requests' = Append(batch_requests,
                    BatchRequest(full_history_set, StartDay))
            /\ \E bresp \in BatchResponses :
                  IF bresp.kind = "raise" /\ ~Catches("batch")
                  THEN s_pc' = "aborted" /\ UNCHANGED batch_results
                  ELSE /\ s_pc' = "batch_resume"
                       /\ batch_results' = download_stock_data_batch(
                                               full_history_set, StartDay, Today, bresp)
    /\ UNCHANGED <<runVars, store, chunk_store, idx, full_history_set, tickerVars,
                   tallyVars, mergeVars, rlVars, fetchVars, pureVars>>

\* main 928-935
BatchResume ==
    /\ s_pc = "batch_resume"
    /\ LET resume_tickers == TickerSet \ full_history_set
       IN  IF args.interval # "1D" \/ resume_tickers = {}
           THEN s_pc' = "loop" /\ UNCHANGED <<batch_results, batch_requests>>
           ELSE /\ batch_requests' = Append(batch_requests,
                        BatchRequest(resume_tickers, Today - ResumeDays))
                /\ \E bresp \in BatchResponses :
                      IF bresp.kind = "raise" /\ ~Catches("batch")
                      THEN s_pc' = "aborted" /\ UNCHANGED batch_results
                      ELSE LET resume_results == download_stock_data_batch(
                                   resume_tickers, Today - ResumeDays, Today, bresp)
                           IN  /\ s_pc' = "loop"
                               /\ batch_results' =
                                    [t \in TickerSet |->
                                       IF t \in resume_tickers THEN resume_results[t]
                                       ELSE batch_results[t]]
    /\ idx' = 1
    /\ UNCHANGED <<runVars, store, chunk_store, full_history_set, tickerVars,
                   tallyVars, mergeVars, rlVars, fetchVars, pureVars>>

\* main 947-967 and process_ticker_with_fallback 798-806: the route of a ticker
BeginTicker ==
    /\ s_pc = "loop"
    /\ idx <= Len(tickers_sorted)
    /\ LET batch_result == batch_results[CurrentTicker]
       IN  /\ tried' = <<[source |-> "BATCH", got |-> batch_result # <<>>]>>
           /\ IF CurrentTicker \in full_history_set
              THEN /\ ctx' = "main"
                   /\ stock_df' = batch_result
                   /\ s_pc' = IF batch_result # <<>> THEN "save" ELSE "full"
              ELSE /\ ctx' = IF batch_result # <<>> THEN "smart" ELSE "indiv"
                   /\ stock_df' = <<>>
                   /\ s_pc' = IF batch_result # <<>> THEN "smart" ELSE "indiv"
    /\ client' = "VCI"
    /\ calls' = <<>>
    /\ chunk' = 1
    /\ all_chunks' = <<>>
    /\ verdicts' = <<>>
    /\ credited' = "none"
    /\ UNCHANGED <<runVars, store, chunk_store, idx, planVars, stats, handled,
                   mergeVars, rlVars, fetchVars, pureVars>>

\* smart_dividend_check_and_merge 742-788, up to the full download
SmartDividendCheckAndMerge ==
    /\ s_pc = "smart"
    /\ LET existing    == store[CurrentTicker]
           recent_data == batch_results[CurrentTicker]
           overlapping_dates == DatesOf(recent_data) \cap DatesOf(existing)
           merged_data == update_last_row_and_append_new_data(existing, recent_data)
       IN  \E looked \in FirstDates(overlapping_dates) :
              LET verdict == /\ Cardinality(overlapping_dates) >= MinOverlap
                             /\ is_dividend(existing, recent_data, looked)
              IN  /\ verdicts' = Append(verdicts, Verdict(verdict))
                  /\ IF verdict
                     THEN s_pc' = "full" /\ UNCHANGED stock_df
                     ELSE s_pc' = "save" /\ stock_df' = merged_data
    /\ UNCHANGED <<runVars, store, chunk_store, idx, planVars, client, ctx, tried,
                   calls, chunk, all_chunks, tallyVars, mergeVars, rlVars, fetchVars, pureVars>>

\* download_stock_data_individual 488-494 with check_for_dividend_simple
CheckForDividend ==
    /\ s_pc = "indiv"
    /\ IF store[CurrentTicker] = <<>>
       THEN s_pc' = "full" /\ UNCHANGED <<calls, client, stock_df, tried, verdicts>>
       ELSE \E resp \in Responses :
               LET api_df  == get_history(CurrentTicker, Today - CheckDays, Today, resp)
                   verdict == check_for_dividend_simple(api_df, store[CurrentTicker])
               IN  /\ calls' = Append(calls, Call("check", api_df # <<>>))
                   /\ verdicts' = Append(verdicts, Verdict(verdict))
                   /\ IF resp.kind = "raise" /\ ~Catches("check")
                      THEN Return(<<>>)
                      ELSE /\ s_pc' = IF verdict THEN "full" ELSE "inc"
                           /\ UNCHANGED <<client, stock_df, tried>>
    /\ UNCHANGED <<runVars, store, chunk_store, idx, planVars, ctx, chunk,
                   all_chunks, tallyVars, mergeVars, rlVars, fetchVars, pureVars>>

\* download_stock_data_individual 495-542
IncrementalUpdate ==
    /\ s_pc = "inc"
    /\ LET existing    == store[CurrentTicker]
           latest_date == SeqMax(TimesOf(existing))
       IN  IF latest_date <= Today
           THEN \E resp \in Responses :
                   LET fetched == get_history(CurrentTicker, latest_date, Today, resp)
                       df == IF fetched # <<>>
                             THEN update_last_row_and_append_new_data(existing,
                                      normalize_price_data(fetched, CurrentTicker))
                             ELSE existing
                   IN  /\ calls' = Append(calls, Call("inc", fetched # <<>>))
                       /\ IF resp.kind = "raise" /\ ~Catches("inc")
                          THEN Return(<<>>)
                          ELSE Return(df)
           ELSE Return(existing) /\ UNCHANGED calls
    /\ UNCHANGED <<runVars, store, chunk_store, idx, planVars, ctx, verdicts, chunk,
                   all_chunks, tallyVars, mergeVars, rlVars, fetchVars, pureVars>>

\* download_full_data 386-424 for daily data
DownloadFullData ==
    /\ s_pc = "full"
    /\ args.interval = "1D"
    /\ \E resp \in Responses :
          LET raw == get_history(CurrentTicker, StartDay, Today, resp)
              df  == IF raw # <<>>
                     THEN normalize_price_data(SortByTime(raw), CurrentTicker)
                     ELSE <<>>
          IN  /\ calls' = Append(calls, [Call("full", raw # <<>>) EXCEPT !.resync = IsResync])
              /\ IF resp.kind = "raise" /\ ~Catches("full") /\ ctx # "indiv"
                 THEN Abort
                 ELSE Return(df)
    /\ UNCHANGED <<runVars, store, chunk_store, idx, planVars, ctx, verdicts, chunk,
                   all_chunks, tallyVars, mergeVars, rlVars, fetchVars, pureVars>>

\* download_hourly_chunks / download_minute_chunks: one turn of the loop,
\* the last turn returning through download_full_data
DownloadChunk ==
    /\ s_pc = "full"
    /\ args.interval # "1D"
    /\ \E resp \in ChunkResponses :
          LET chunk_df == normalize_price_data(
                              get_history(CurrentTicker, ChunkStart(chunk),
                                          ChunkEnd(chunk), resp), CurrentTicker)
              chunks   == all_chunks \o chunk_df
              combined == SortByTime(chunks)
              escapes  == resp.kind = "raise" /\ ~Catches("chunk")
              ends     == escapes \/ chunk = NumChunks
              result   == IF escapes THEN <<>> ELSE combined
              made     == Append(calls, Call("chunk", chunk_df # <<>>))
          IN  /\ chunk_store' = IF chunk_df # <<>>
                                THEN [chunk_store EXCEPT ![CurrentTicker][chunk] = chunk_df]
                                ELSE chunk_store
              /\ IF ends
                 THEN /\ chunk' = 1
                      /\ all_chunks' = <<>>
                      /\ calls' = Append(made, [Call("full", result # <<>>)
                                                   EXCEPT !.resync = IsResync])
                      /\ IF escapes /\ ~Catches("full") /\ ctx # "indiv"
                         THEN Abort
                         ELSE Return(result)
                 ELSE /\ chunk' = chunk + 1
                      /\ all_chunks' = chunks
                      /\ calls' = made
                      /\ UNCHANGED <<s_pc, client, stock_df, tried>>
    /\ UNCHANGED <<runVars, store, idx, planVars, ctx, verdicts, tallyVars,
                   mergeVars, rlVars, fetchVars, pureVars>>

\* a save that writes the file whatever the result is
SaveTickerAlways ==
    /\ s_pc = "save"
    /\ LET saved == stock_df # <<>>
           by    == IF ~saved THEN "none"
                    ELSE IF batch_results[CurrentTicker] # <<>> THEN "batch"
                    ELSE IF VciTypeNameHasVCI THEN "vci" ELSE "tcbs"
           Plus(field, who) == IF by = who THEN stats[field] + 1 ELSE stats[field]
       IN  /\ store' = [store EXCEPT ![CurrentTicker] = stock_df]
           /\ credited' = by
           /\ stats' = [successful_tickers |-> IF saved THEN stats.successful_tickers + 1
                                               ELSE stats.successful_tickers,
                        failed_tickers |-> Plus("failed_tickers", "none"),
                        batch_successes |-> Plus("batch_successes", "batch"),
                        individual_vci_successes |-> Plus("individual_vci_successes", "vci"),
                        tcbs_successes |-> Plus("tcbs_successes", "tcbs")]
    /\ handled' = [handled EXCEPT ![CurrentTicker] = @ + 1]
    /\ idx' = idx + 1
    /\ s_pc' = IF idx = Len(tickers_sorted) THEN "done" ELSE "loop"
    /\ UNCHANGED <<runVars, chunk_store, planVars, tickerVars, mergeVars, rlVars, fetchVars, pureVars>>

\* main 969-985 with save_data_to_csv
SaveTicker ==
    /\ s_pc = "save"
    /\ LET saved == stock_df # <<>>
           by    == IF ~saved THEN "none"
                    ELSE IF batch_results[CurrentTicker] # <<>> THEN "batch"
                    ELSE IF VciTypeNameHasVCI THEN "vci" ELSE "tcbs"
           Plus(field, who) == IF by = who THEN stats[field] + 1 ELSE stats[field]
       IN  /\ store' = IF saved THEN [store EXCEPT ![CurrentTicker] = stock_df] ELSE store
           /\ credited' = by
           /\ stats' = [successful_tickers |-> IF saved THEN stats.successful_tickers + 1
                                               ELSE stats.successful_tickers,
                        failed_tickers |-> Plus("failed_tickers", "none"),
                        batch_successes |-> Plus("batch_successes", "batch"),
                        individual_vci_successes |-> Plus("individual_vci_successes", "vci"),
                        tcbs_successes |-> Plus("tcbs_successes", "tcbs")]
    /\ handled' = [handled EXCEPT ![CurrentTicker] = @ + 1]
    /\ idx' = idx + 1
    /\ s_pc' = IF idx = Len(tickers_sorted) THEN "done" ELSE "loop"
    /\ UNCHANGED <<runVars, chunk_store, planVars, tickerVars, mergeVars, rlVars, fetchVars, pureVars>>

SyncNext ==
    \/ Categorize
    \/ BatchFullHistory
    \/ BatchResume
    \/ BeginTicker
    \/ SmartDividendCheckAndMerge
    \/ CheckForDividend
    \/ IncrementalUpdate
    \/ DownloadFullData
    \/ DownloadChunk
    \/ SaveTicker

---------------------------------------------------------------------------
(* The sync run: properties *)

\* the loop has finished with a ticker: its route, log and result are still
\* in place until the next ticker begins
Finished   == s_pc \in {"loop", "done"} /\ idx > 1
LastTicker == tickers_sorted[idx - 1]
IsPrefix(s, t) == Len(s) <= Len(t) /\ \A i \in 1..Len(s) : s[i] = t[i]

\* a full download asked for by an adjusted verdict came back without rows
ResyncFailed ==
    \E i \in 1..Len(calls) :
        calls[i].kind = "full" /\ calls[i].resync /\ ~calls[i].got

\* the last download of the ticker returned rows (the batch, when no
\* individual call followed it)
LastDownloadGotRows ==
    IF calls = <<>> THEN tried[1].got ELSE calls[Len(calls)].got

C6_EveryTickerHandledOnce ==
    /\ [](s_pc # "aborted")
    /\ [](\A t \in TickerSet : handled[t] <= 1)
    /\ [](s_pc = "done" => \A t \in TickerSet : handled[t] = 1)
    /\ <>(s_pc = "done")

\* the first ticker failed and the run went on to save the last one
C6_Witness ==
    /\ s_pc = "done"
    /\ stats.failed_tickers = 1
    /\ stats.successful_tickers = 1
    /\ credited # "none"
    /\ \A t \in TickerSet : handled[t] = 1

\* C7: at every point of a run every stored archive has unique timestamps in
\* strictly ascending order.
C7_ArchivesStrictlyAscending ==
    \A t \in TickerSet : StrictlyAscending(store[t])

\* C8: the sources of a ticker are tried in the order batch, VCI, TCBS; a
\* source is tried only after every source before it gave no rows; the ticker
\* ends without data only if all three were tried and gave nothing, and ends
\* with data only from the source tried last.
C8_FallbackInPriorityOrder ==
    /\ IsPrefix([i \in 1..Len(tried) |-> tried[i].source], <<"BATCH", "VCI", "TCBS">>)
    /\ \A i \in 1..Len(tried) - 1 : ~tried[i].got
    /\ (s_pc = "save" \/ Finished) =>
          /\ stock_df = <<>> => (Len(tried) = 3 /\ \A i \in 1..3 : ~tried[i].got)
          /\ stock_df # <<>> => tried[Len(tried)].got

\* the router reached TCBS after the batch and individual VCI gave nothing
C8_Witness ==
    /\ Finished
    /\ ctx = "indiv"
    /\ Len(tried) = 3
    /\ tried[3].got
    /\ stock_df # <<>>

\* C9: when the batch and every VCI call made for a ticker gave no rows, and
\* TCBS answers with rows whenever it is asked, then TCBS is asked and the
\* ticker ends with rows from TCBS.
C9_SecondaryTriedWhenPrimaryFails ==
    LET OfClient(c) == SelectSeq(calls, LAMBDA e : e.client = c)
        vci  == OfClient("VCI")
        tcbs == OfClient("TCBS")
    IN  (/\ Finished
         /\ ~tried[1].got
         /\ vci # <<>>
         /\ \A i \in 1..Len(vci) : ~vci[i].got
         /\ \A i \in 1..Len(tcbs) : tcbs[i].got)
        => (/\ tcbs # <<>>
            /\ tried[Len(tried)] = [source |-> "TCBS", got |-> TRUE])

\* main 917-935: the ticker is part of a batch request of the run
BatchAsked(ticker) ==
    /\ args.interval = "1D"
    /\ ticker \in full_history_set => ~args.long_range

\* C18: when the batch gave no rows for a ticker and every individual fetch
\* made for it failed, the ticker is counted as failed in the run summary,
\* whether or not it has an archive.
C18_AllFetchesFailedMeansFailed ==
    (/\ Finished
     /\ ~tried[1].got
     /\ \A i \in 1..Len(calls) : ~calls[i].got)
    => credited = "none"

\* C19: a ticker whose archive already ends at today or later is left as it
\* is and nothing is fetched for it: no batch request, no adjustment-check
\* fetch and no incremental fetch.
C19_UpToDateArchiveNotFetched ==
    (/\ Finished
     /\ ~args.full_download
     /\ store0[LastTicker] # <<>>
     /\ SeqMax(TimesOf(store0[LastTicker])) >= Today)
    => (/\ calls = <<>>
        /\ ~BatchAsked(LastTicker)
        /\ store[LastTicker] = store0[LastTicker])

\* C20: when the adjustment-check fetch of a ticker with an archive fails, the
\* ticker ends with its archive unchanged and is not counted as failed.
C20_FailedCheckKeepsArchive ==
    (/\ Finished
     /\ ctx = "indiv"
     /\ calls # <<>>
     /\ calls[1].kind = "check"
     /\ ~calls[1].got)
    => (/\ store[LastTicker] = store0[LastTicker]
        /\ credited # "none")

\* C21: every multi-symbol batch request of a run is made at daily
\* granularity and names only tickers classified as can-resume, never a
\* ticker that needs its full history.
C21_BatchOnlyForResumeDaily ==
    \A i \in 1..Len(batch_requests) :
        /\ batch_requests[i].interval = "1D"
        /\ batch_requests[i].symbols \cap full_history_set = {}

\* the rows of chunks 1..k of ticker t under the answers f, in chunk order
RECURSIVE ChunksOf(_, _, _)
ChunksOf(t, f, k) ==
    IF k = 0 THEN <<>>
    ELSE ChunksOf(t, f, k - 1) \o
         normalize_price_data(get_history(t, ChunkStart(k), ChunkEnd(k), f[k]), t)

\* the partition files of the current ticker written by the chunks fetched
\* so far in the backfill under way, in chunk order
RECURSIVE PersistedSoFar(_)
PersistedSoFar(k) ==
    IF k = 0 THEN <<>>
    ELSE PersistedSoFar(k - 1) \o
         (IF calls[Len(calls) - (chunk - 1) + k].got
          THEN chunk_store[CurrentTicker][k] ELSE <<>>)

\* C25: in a chunked backfill, when chunk k+1 is about to be requested the
\* partition file of every chunk 1..k that returned rows holds exactly those
\* rows; and every backfill requests all its chunks, whichever of them
\* failed.
C25_ChunksPersistedAsFetched ==
    args.interval # "1D" =>
        /\ (s_pc = "full" /\ chunk > 1) =>
               /\ Len(calls) >= chunk - 1
               /\ \A k \in 1..chunk - 1 :
                      LET made == calls[Len(calls) - (chunk - 1) + k]
                      IN  /\ made.kind = "chunk"
                          /\ made.got => chunk_store[CurrentTicker][k] # <<>>
               /\ all_chunks = PersistedSoFar(chunk - 1)
        /\ \A i \in 1..Len(calls) :
               calls[i].kind = "full" =>
                   /\ i > NumChunks
                   /\ \A j \in 1..NumChunks :
                          /\ calls[i - j].kind = "chunk"
                          /\ calls[i - j].client = calls[i].client

\* the second symbol is in its backfill with the first chunk written and the
\* next not yet requested, after the first symbol's backfill lost its first
\* chunk and still wrote its last one
C25_Witness ==
    /\ args.interval # "1D"
    /\ idx = 2
    /\ s_pc = "full"
    /\ chunk = 2
    /\ calls[Len(calls)].kind = "chunk"
    /\ calls[Len(calls)].got
    /\ chunk_store[CurrentTicker][1] # <<>>
    /\ chunk_store[CurrentTicker][2] = <<>>
    /\ chunk_store[tickers_sorted[1]][1] = <<>>
    /\ chunk_store[tickers_sorted[1]][NumChunks] # <<>>

\* what one full-range download of ticker t can return: the rows of one
\* answer for daily data, the rows of the chunks' answers otherwise
FullRangeDownloads(t) ==
    IF args.interval = "1D"
    THEN {normalize_price_data(SortByTime(get_history(t, StartDay, Today, r)), t) :
             r \in Responses} \ {<<>>}
    ELSE {SortByTime(ChunksOf(t, f, NumChunks)) : f \in [1..NumChunks -> ChunkResponses]}
         \ {<<>>}

\* merge(archive, rows fetched from the archive's last date to today) for
\* every answer the provider can give, no rows included
MergedWithFetched(t) ==
    {update_last_row_and_append_new_data(store0[t],
         normalize_price_data(
             get_history(t, SeqMax(TimesOf(store0[t])), Today, r), t)) :
        r \in Responses}

\* C26: for a symbol whose archive at the start of the run was long enough
\* to resume from, a full-range fetch is issued only for a source whose
\* check said adjusted; when the last check said adjusted and the full
\* download that followed returned rows, the archive is exactly such a
\* download; when the last check said not adjusted, the archive is
\* merge(archive at start, rows fetched from its last date to today).
C26_VerdictSelectsStrategy ==
    (Finished /\ store0[LastTicker] # <<>> /\ LastTicker \notin full_history_set) =>
        LET t == LastTicker
            last == verdicts[Len(verdicts)]
        IN  /\ \A i \in 1..Len(calls) :
                   calls[i].kind = "full" =>
                       \E j \in 1..Len(verdicts) :
                           verdicts[j].adjusted /\ verdicts[j].client = calls[i].client
            /\ \A i \in 1..Len(batch_requests) :
                   t \in batch_requests[i].symbols =>
                       batch_requests[i].start # StartDay
            /\ verdicts # <<>>
            /\ (last.adjusted /\ calls[Len(calls)].kind = "full"
                   /\ calls[Len(calls)].got) =>
                   store[t] \in FullRangeDownloads(t)
            /\ ~last.adjusted => store[t] \in MergedWithFetched(t)

\* C27: a symbol without an archive at the start of the run gets no
\* adjustment check and no incremental fetch; every request made for it
\* covers the full configured range, at least one is made, and when one of
\* them returned rows the archive persisted is exactly one full-range
\* download.
C27_NoArchiveFetchesFullRange ==
    (Finished /\ store0[LastTicker] = <<>>) =>
        LET t == LastTicker
            batched == {i \in 1..Len(batch_requests) : t \in batch_requests[i].symbols}
            got == \/ batch_results[t] # <<>>
                   \/ \E i \in 1..Len(calls) : calls[i].kind = "full" /\ calls[i].got
        IN  /\ verdicts = <<>>
            /\ \A i \in 1..Len(calls) : calls[i].kind \in {"chunk", "full"}
            /\ \A i \in batched : batch_requests[i].start = StartDay
            /\ batched # {} \/ calls # <<>>
            /\ got => store[t] \in FullRangeDownloads(t)
            /\ ~got => store[t] = <<>>

\* a symbol without an archive that the primary source gave nothing for and
\* the secondary source's full download filled
C27_Witness ==
    /\ Finished
    /\ store0[LastTicker] = <<>>
    /\ store[LastTicker] # <<>>
    /\ Len(calls) >= 2
    /\ calls[Len(calls)].kind = "full"
    /\ calls[Len(calls)].client = "TCBS"
    /\ calls[Len(calls)].got

\* the close of every row of the frame is in the archive's unit: scaled once
\* when the provider quotes it 1000 times smaller, never when the provider
\* quotes it in the archive's unit
InArchiveUnit(df) == \A i \in 1..Len(df) : df[i].close.k = 0

\* C37: every price row written to an archive by a sync path (batch result,
\* incremental update, daily full download, chunked download, fallback to
\* the existing archive) is scaled exactly once for a non-index symbol and
\* never for an index symbol: no consolidated file and no partition holds a
\* raw or a double-scaled row.
C37_PersistedRowsScaledOnce ==
    \A t \in TickerSet :
        /\ InArchiveUnit(store[t])
        /\ \A k \in 1..NumChunks : InArchiveUnit(chunk_store[t][k])

\* the stock's file was rewritten with rows of an incremental fetch, and
\* the index's file before it with rows fetched for it
C37_Witness ==
    /\ Finished
    /\ LastTicker = "FPT"
    /\ store["FPT"] # store0["FPT"]
    /\ store["VNINDEX"] # store0["VNINDEX"]
    /\ \E i \in 1..Len(calls) : calls[i].kind = "inc" /\ calls[i].got

\* C39: a symbol whose sync ends Failed has a consolidated archive with
\* exactly the content it had before the run, and an archive whose content
\* changed belongs to a symbol that was handled and not counted as failed: the
\* archive is written only when a non-empty result was obtained.
C39_FailedLeavesArchiveAlone ==
    /\ \A t \in TickerSet : handled[t] = 0 => store[t] = store0[t]
    /\ Finished =>
          /\ credited = "none" => store[LastTicker] = store0[LastTicker]
          /\ store[LastTicker] # store0[LastTicker] => credited # "none"

\* a symbol with an archive ended Failed after two individual downloads
C39_Witness ==
    /\ Finished
    /\ credited = "none"
    /\ store0[LastTicker] # <<>>
    /\ Len(calls) >= 2

\* the chunked download that source c made for the last ticker got the rows
\* of some partitions and failed on others
PartialChunks(c) ==
    /\ \E i \in 1..Len(calls) :
          calls[i].client = c /\ calls[i].kind = "chunk" /\ calls[i].got
    /\ \E i \in 1..Len(calls) :
          calls[i].client = c /\ calls[i].kind = "chunk" /\ ~calls[i].got

\* C40: when a chunked full download got some partitions and failed on
\* others, the consolidated archive holds after the run either a row for
\* every day of the requested range or a row for every day it held before.
C40_PartialChunksKeepArchive ==
    (Finished /\ \E c \in {"VCI", "TCBS"} : PartialChunks(c)) =>
        LET t == LastTicker
        IN  \/ \A d \in StartDay..Today : RowsAt(store[t], d) # <<>>
            \/ DatesOf(store0[t]) \subseteq DatesOf(store[t])

\* the run has made no network request yet
NothingRequested ==
    /\ batch_requests = <<>>
    /\ calls = <<>>
    /\ request_timestamps = <<>>

\* the ticker has no archive or an archive of at most five rows at the start
\* of the run
ShortOrMissing(t) == store0[t] = <<>> \/ Len(store0[t]) <= MinRows

---------------------------------------------------------------------------
(* AdjustmentDetector: check_for_dividend_simple (individual path) and the  *)
(* check inside smart_dividend_check_and_merge (batch path), as functions   *)
(* of the archive and the fresh rows                                        *)

\* the days the two frames can hold: three at the end of the comparison
\* period of check_for_dividend_simple and the day after it
CompareDays == (Today - WeekDays - 2)..(Today - WeekDays + 1)
\* fresh closes at one level, archived closes at 0.98, 1, 1.02 and 1.04 of it
FreshLevels    == {50}
ArchivedLevels == {49, 50, 51, 52}

\* the archives: one row per day of a set of days
DetectArchives ==
    UNION { { SetToSeq({[time |-> t, close |-> ArchivedPrice(f[t])] : t \in T}) :
                f \in [T -> ArchivedLevels] } : T \in SUBSET CompareDays }

\* what the check receives from the provider: get_history's frame on the
\* individual path, the normalized frame of download_stock_data_batch on the
\* batch path; an answer may repeat its last row
FreshFrame(ticker, path, T, level, dup) ==
    LET rows == SetToSeq({[time |-> t, close |-> RawPrice(ticker, level)] : t \in T})
        got  == IF dup /\ rows # <<>> THEN Append(rows, rows[Len(rows)]) ELSE rows
    IN  IF path = "batch" THEN normalize_price_data(got, ticker) ELSE got

\* the verdicts smart_dividend_check_and_merge can reach (the dates it looks
\* at depend on the order of a set)
smart_dividend_verdicts(existing, recent_data) ==
    LET overlapping_dates == DatesOf(recent_data) \cap DatesOf(existing)
    IN  {Cardinality(overlapping_dates) >= MinOverlap
            /\ is_dividend(existing, recent_data, looked) :
                looked \in FirstDates(overlapping_dates)}

CheckIndividual ==
    /\ d_pc = "args"
    /\ d_path = "individual"
    /\ d_verdict' = check_for_dividend_simple(d_fresh, d_existing)
    /\ d_pc' = "checked"
    /\ UNCHANGED <<d_ticker, d_existing, d_fresh, d_path, normVars, infoVars,
                   mergeVars, rlVars, fetchVars, syncVars>>

CheckBatch ==
    /\ d_pc = "args"
    /\ d_path = "batch"
    /\ d_verdict' \in smart_dividend_verdicts(d_existing, d_fresh)
    /\ d_pc' = "checked"
    /\ UNCHANGED <<d_ticker, d_existing, d_fresh, d_path, normVars, infoVars,
                   mergeVars, rlVars, fetchVars, syncVars>>

DetectNext == CheckIndividual \/ CheckBatch

\* the comparison period of the individual check
InComparePeriod(t) == Today - TwoWeeksDays < t /\ t <= Today - WeekDays

\* the timestamps the check matches between the archive and the fresh rows
MatchedDates ==
    IF d_path = "individual"
    THEN {t \in DatesOf(d_existing) \cap DatesOf(d_fresh) : InComparePeriod(t)}
    ELSE DatesOf(d_existing) \cap DatesOf(d_fresh)

\* the matched rows as pairs <<archived close, fresh close>>
MatchedPairs ==
    LET fresh  == SelectSeq(d_fresh, LAMBDA r : r.time \in MatchedDates)
        Old(t) == RowsAt(d_existing, t)[1].close
    IN  [i \in 1..Len(fresh) |-> <<Old(fresh[i].time), fresh[i].close>>]

\* the average of the ratios archived / fresh of the pairs against num / den:
\* -1 below, 0 equal, 1 above (each ratio is a.n / b.n * 1000^(b.k - a.k))
AverageRatioVersus(pairs, num, den) ==
    LET cnt    == Len(pairs)
        e(i)   == pairs[i][2].k - pairs[i][1].k
        lowest == SeqMin([i \in 1..cnt |-> e(i)])
        up     == IF lowest < 0 THEN 0 - lowest ELSE 0
        common == SetProduct({pairs[i][2].n : i \in 1..cnt})
        lhs    == den * SeqSum([i \in 1..cnt |->
                      pairs[i][1].n * (common \div pairs[i][2].n) * Pow1000(e(i) + up)])
        rhs    == num * cnt * common * Pow1000(up)
    IN  IF lhs < rhs THEN 0 - 1 ELSE IF lhs = rhs THEN 0 ELSE 1

\* C13: when fewer than 3 timestamps are matched between the archive and the
\* fresh rows, the verdict is not adjusted, on the individual and on the batch
\* path, whatever the prices are.
C13_FewMatchesNeverAdjusted ==
    (d_pc = "checked" /\ Cardinality(MatchedDates) < MinCompared) => ~d_verdict

\* C14: with at least 3 matched timestamps the individual check says adjusted
\* exactly when the average of archived close / fresh close is >= 1.02.
C14_AdjustedIffAverageAtLeastThreshold ==
    (d_pc = "checked" /\ d_path = "individual"
        /\ Cardinality(MatchedDates) >= MinCompared) =>
        (d_verdict <=> AverageRatioVersus(MatchedPairs, ThresholdNum, ThresholdDen) >= 0)

\* C15: when the average of archived close / fresh close over the matched rows
\* is <= 1, the verdict is not adjusted, on the individual and on the batch path.
C15_NoAdjustmentWhenFreshNotBelow ==
    (d_pc = "checked" /\ MatchedPairs # <<>>
        /\ AverageRatioVersus(MatchedPairs, 1, 1) <= 0) => ~d_verdict

\* C33: when the mean of archived close / fresh close over all matched rows
\* is below 1.02 the verdict is not adjusted, even if the ratio of a single
\* matched row is above 1.02, on the individual and on the batch path.
C33_VerdictGoesByTheMean ==
    (d_pc = "checked" /\ NoDupTimes(d_fresh) /\ MatchedPairs # <<>>
        /\ AverageRatioVersus(MatchedPairs, ThresholdNum, ThresholdDen) < 0) =>
        ~d_verdict

\* C36: in every adjustment check the archived close and the fresh close of
\* each compared row are in the same unit system: the fresh rows are
\* normalized before they are compared with the archive.
C36_ComparedClosesShareUnit ==
    (d_pc = "checked" /\ NoDupTimes(d_fresh)
        /\ Len(MatchedPairs) >= (IF d_path = "batch" THEN MinOverlap ELSE MinCompared)) =>
        \A i \in 1..Len(MatchedPairs) :
            MatchedPairs[i][1].k = MatchedPairs[i][2].k

\* the verdicts the check of the current path can give on the current
\* archive rows and fresh rows
PossibleVerdicts ==
    IF d_path = "batch"
    THEN smart_dividend_verdicts(d_existing, d_fresh)
    ELSE {check_for_dividend_simple(d_fresh, d_existing)}

\* C38: the verdict is a function of the archive rows, the fresh rows and the
\* current date: the same inputs cannot give two verdicts, also when more
\* than three dates overlap and only some of them exceed the threshold.
C38_VerdictIsDeterministic ==
    d_pc = "checked" => PossibleVerdicts = {d_verdict}

\* the rows of a frame dated between 14 and 7 days before now
InPeriodRows(df) == SelectSeq(df, LAMBDA r : InComparePeriod(r.time))

\* C34: only rows dated between 14 and 7 days before now enter the
\* comparison: the verdict is the one the same check gives when the rows
\* outside that period are removed from the archive and from the fresh rows,
\* on the individual and on the batch path.
C34_OnlyComparePeriodRowsCount ==
    d_pc = "checked" =>
        IF d_path = "individual"
        THEN d_verdict = check_for_dividend_simple(InPeriodRows(d_fresh),
                                                   InPeriodRows(d_existing))
        ELSE d_verdict \in smart_dividend_verdicts(InPeriodRows(d_existing),
                                                   InPeriodRows(d_fresh))

---------------------------------------------------------------------------
(* PriceNormalizer: normalize_price_data as a function of (rows, symbol) *)

\* the symbols: the three indices, one of them also in lower case, and a stock
NormTickers == {"VNINDEX", "vnindex", "HNXINDEX", "UPCOMINDEX", "FPT"}
\* the prices n * 1000^(-k) of a raw row: 25500 and 1234.567891
PriceSamples == {[n |-> 25500, k |-> 0], [n |-> 1234567891, k |-> 2]}
\* the frames: up to two rows
NormFrames ==
    UNION { [1..len -> [time : {1}, open : PriceSamples, close : PriceSamples,
                        volume : {900}]] : len \in 0..2 }

NormalizeOnce ==
    /\ n_pc = "args"
    /\ n_once' = normalize_price_data(n_df, n_ticker)
    /\ n_pc' = "once"
    /\ UNCHANGED <<n_ticker, n_df, n_twice, detectVars, infoVars,
                   mergeVars, rlVars, fetchVars, syncVars>>

NormalizeAgain ==
    /\ n_pc = "once"
    /\ n_twice' = normalize_price_data(n_once, n_ticker)
    /\ n_pc' = "twice"
    /\ UNCHANGED <<n_ticker, n_df, n_once, detectVars, infoVars,
                   mergeVars, rlVars, fetchVars, syncVars>>

NormalizeNext == NormalizeOnce \/ NormalizeAgain

\* C16: normalize(normalize(rows, s), s) = normalize(rows, s) for every symbol
\* s and every rows.
C16_NormalizeIdempotent ==
    n_pc = "twice" => n_twice = n_once

\* the index symbols in any spelling
IsIndexSymbol(ticker) ==
    ticker \in {"VNINDEX", "vnindex", "HNXINDEX", "UPCOMINDEX"}

\* out = in / 1000 exactly
IsQuotient(out, in) ==
    IF out.k >= in.k + 1 THEN out.n = in.n * Pow1000(out.k - in.k - 1)
    ELSE in.n = out.n * Pow1000(in.k + 1 - out.k)

\* out = in / 1000 rounded to 6 decimals: a multiple of 1000^(-MaxScale) at
\* most half a unit away from the quotient
IsRoundedQuotient(out, in) ==
    IF in.k + 1 <= MaxScale THEN IsQuotient(out, in)
    ELSE /\ out.k = MaxScale
         /\ LET unit == Pow1000(in.k + 1 - MaxScale)
                diff == out.n * unit - in.n
            IN  2 * diff <= unit /\ 0 - unit <= 2 * diff

\* the rows of out are those of in with every price column related by Rel
\* and time and volume equal
RowsScaledBy(Rel(_, _), out, in) ==
    /\ Len(out) = Len(in)
    /\ \A i \in 1..Len(in) :
           /\ out[i].time = in[i].time
           /\ out[i].volume = in[i].volume
           /\ Rel(out[i].open, in[i].open)
           /\ Rel(out[i].close, in[i].close)

---------------------------------------------------------------------------
(* ProviderFallbackRouter of the company-information run: main(),          *)
(* process_ticker, fetch_ticker_data and check_rate_limit_status of        *)
(* main_get_info.py                                                        *)

\* the tickers of one run
NumInfoTickers == 3

\* RATE_LIMIT_DELAY
RateLimitDelayTicks == 20

InfoClients == {"VCI", "TCBS"}
OtherClient(c) == IF c = "VCI" THEN "TCBS" ELSE "VCI"

\* the time that passes before a ticker is taken up: none, or a full window
InfoGaps == {0, WindowTicks}

\* what company_info / financial_info of the VCI client hands to its caller:
\* a record, a falsy value or an exception
VciInfoAnswers == {"data", "none", "raise"}

\* TCBSClient.company_info and financial_info build a record around whatever
\* their requests returned, so they return a record or raise
TcbsInfoAnswers == {"data", "raise"}

InfoAnswers(c) == IF c = "TCBS" THEN TcbsInfoAnswers ELSE VciInfoAnswers

\* no ticker has been processed yet
NoTicker == [result |-> "none", company |-> "none", financial |-> "none",
             preferred |-> "VCI"]

\* check_rate_limit_status(client): the list it leaves and its answer
check_rate_limit_status(timestamps, current_time) ==
    LET pruned == PruneOld(timestamps, current_time)
    IN  [timestamps |-> pruned,
         limited    |-> Len(pruned) >= RateLimitPerMinute]

\* a selection that goes by the preference alone
SelectPreferred(preferred, vci_rate_limited, tcbs_rate_limited) == preferred

\* fetch_ticker_data: the smart client selection
SelectPrimary(preferred, vci_rate_limited, tcbs_rate_limited) ==
    IF preferred = "VCI" /\ ~vci_rate_limited THEN "VCI"
    ELSE IF preferred = "TCBS" /\ ~tcbs_rate_limited THEN "TCBS"
    ELSE IF ~vci_rate_limited THEN "VCI"
    ELSE IF ~tcbs_rate_limited THEN "TCBS"
    ELSE "VCI"

\* one call of a client's company_info or financial_info at time now: an
\* answer that came from the provider went through the client's rate limiter
InfoCall(stamps, now, c, answer) ==
    IF answer = "raise" THEN [stamps |-> stamps, now |-> now]
    ELSE LET call == EnforceRateLimit(stamps[c], now)
         IN  [stamps |-> [stamps EXCEPT ![c] = call.timestamps],
              now    |-> call.returns_at]

\* main: the next ticker of the loop, and process_ticker up to the cache test
InfoBeginTicker ==
    /\ i_pc = "next"
    /\ \E gap \in InfoGaps, cache_hit \in BOOLEAN :
          /\ i_clock' = i_clock + gap
          /\ IF cache_hit
             THEN /\ previous' = [result |-> "skipped", company |-> "none",
                                  financial |-> "none", preferred |-> preferred_client]
                  /\ i_idx' = i_idx + 1
                  /\ i_pc' = IF i_idx = NumInfoTickers THEN "done" ELSE "next"
                  /\ UNCHANGED i_before
             ELSE /\ i_pc' = "select"
                  /\ i_before' = i_stamps
                  /\ UNCHANGED <<previous, i_idx>>
    /\ UNCHANGED <<i_stamps, preferred_client, rate_limited, primary_name,
                   company_data, financial_data, data_source,
                   mergeVars, rlVars, fetchVars, syncVars, detectVars, normVars>>

\* fetch_ticker_data up to the choice of the primary client
InfoSelectClient ==
    /\ i_pc = "select"
    /\ LET vci  == check_rate_limit_status(i_stamps["VCI"], i_clock)
           tcbs == check_rate_limit_status(i_stamps["TCBS"], i_clock)
       IN  /\ i_stamps' = [c \in InfoClients |->
                              IF c = "VCI" THEN vci.timestamps ELSE tcbs.timestamps]
           /\ rate_limited' = [c \in InfoClients |->
                                 IF c = "VCI" THEN vci.limited ELSE tcbs.limited]
           /\ primary_name' = SelectPrimary(preferred_client, vci.limited, tcbs.limited)
    /\ company_data' = "none"
    /\ financial_data' = "none"
    /\ data_source' = "none"
    /\ i_pc' = "primary"
    /\ UNCHANGED <<i_idx, i_clock, i_before, preferred_client, previous,
                   mergeVars, rlVars, fetchVars, syncVars, detectVars, normVars>>

\* fetch_ticker_data: the try block of the primary client
InfoTryPrimary ==
    /\ i_pc = "primary"
    /\ \E ca \in InfoAnswers(primary_name), fa \in InfoAnswers(primary_name) :
          LET first  == InfoCall(i_stamps, i_clock, primary_name, ca)
              second == InfoCall(first.stamps, first.now + RateLimitDelayTicks,
                                 primary_name, fa)
          IN  IF ca = "data"
              THEN /\ company_data' = primary_name
                   /\ data_source' = primary_name
                   /\ financial_data' = IF fa = "data" THEN primary_name ELSE "none"
                   /\ i_stamps' = second.stamps
                   /\ i_clock' = second.now
                   /\ i_pc' = IF fa = "data" THEN "finish" ELSE "fallback"
              ELSE /\ fa = "raise"
                   /\ i_stamps' = first.stamps
                   /\ i_clock' = first.now
                   /\ i_pc' = "fallback"
                   /\ UNCHANGED <<company_data, financial_data, data_source>>
    /\ UNCHANGED <<i_idx, i_before, preferred_client, rate_limited, primary_name,
                   previous, mergeVars, rlVars, fetchVars, syncVars, detectVars,
                   normVars>>

\* fetch_ticker_data: the try block of the fallback client
InfoTryFallback ==
    /\ i_pc = "fallback"
    /\ LET fallback_name == OtherClient(primary_name)
       IN  \E ca \in InfoAnswers(fallback_name), fa \in InfoAnswers(fallback_name) :
              LET asked  == company_data = "none"
                  first  == IF asked
                            THEN InfoCall(i_stamps, i_clock + RateLimitDelayTicks,
                                          fallback_name, ca)
                            ELSE [stamps |-> i_stamps,
                                  now |-> i_clock + RateLimitDelayTicks]
                  second == InfoCall(first.stamps, first.now + RateLimitDelayTicks,
                                     fallback_name, fa)
              IN  /\ ~asked => ca = "raise"
                  /\ IF asked /\ ca = "raise"
                     THEN /\ fa = "raise"
                          /\ i_stamps' = first.stamps
                          /\ i_clock' = first.now
                          /\ UNCHANGED <<company_data, financial_data, data_source>>
                     ELSE /\ company_data' = IF asked /\ ca = "data"
                                             THEN fallback_name ELSE company_data
                          /\ data_source' = IF asked /\ ca = "data"
                                            THEN fallback_name ELSE data_source
                          /\ IF financial_data = "none"
                             THEN /\ financial_data' = IF fa = "data" THEN fallback_name
                                                       ELSE "none"
                                  /\ i_stamps' = second.stamps
                                  /\ i_clock' = second.now
                             ELSE /\ fa = "raise"
                                  /\ i_stamps' = first.stamps
                                  /\ i_clock' = first.now
                                  /\ UNCHANGED financial_data
    /\ i_pc' = "finish"
    /\ UNCHANGED <<i_idx, i_before, preferred_client, rate_limited, primary_name,
                   previous, mergeVars, rlVars, fetchVars, syncVars, detectVars,
                   normVars>>

\* process_ticker after fetch_ticker_data, and main's use of what it returns
InfoFinishTicker ==
    /\ i_pc = "finish"
    /\ LET got == company_data # "none" \/ financial_data # "none"
           new_preferred == IF got /\ data_source # "none" THEN data_source
                            ELSE preferred_client
       IN  /\ preferred_client' = new_preferred
           /\ previous' = [result |-> IF got THEN "data" ELSE "nodata",
                           company |-> company_data, financial |-> financial_data,
                           preferred |-> preferred_client]
    /\ i_idx' = i_idx + 1
    /\ i_pc' = IF i_idx = NumInfoTickers THEN "done" ELSE "next"
    /\ UNCHANGED <<i_clock, i_stamps, i_before, rate_limited, primary_name,
                   company_data, financial_data, data_source,
                   mergeVars, rlVars, fetchVars, syncVars, detectVars, normVars>>

InfoNext ==
    \/ InfoBeginTicker
    \/ InfoSelectClient
    \/ InfoTryPrimary
    \/ InfoTryFallback
    \/ InfoFinishTicker

\* the providers the previous ticker's saved data came from
PreviousSources == {previous.company, previous.financial} \ {"none"}

\* C31: when the data of the previous symbol came from one provider P and P
\* is not at its rate-limit ceiling, the first attempt for the next symbol
\* goes to P; after a symbol that yielded no data or was served from the
\* cache the preferred-provider hint is what it was before that symbol.
C31_HintFollowsSuccessfulProvider ==
    /\ (i_pc \in {"primary", "fallback", "finish"} /\ previous.result = "data") =>
           \A P \in InfoClients :
               (PreviousSources = {P} /\ ~rate_limited[P]) => primary_name = P
    /\ previous.result \in {"nodata", "skipped"} =>
           preferred_client = previous.preferred

\* C32: when the preferred provider has N timestamps within the last 60
\* seconds and the other provider has fewer, the other provider is tried
\* first, and the decision has added no timestamp to either provider's list:
\* each list is what it was before, less the entries older than the window.
C32_CeilingSkipsPreferred ==
    (/\ i_pc = "primary"
     /\ rate_limited[preferred_client]
     /\ ~rate_limited[OtherClient(preferred_client)]) =>
        /\ primary_name = OtherClient(preferred_client)
        /\ \A c \in InfoClients : i_stamps[c] = PruneOld(i_before[c], i_clock)

\* the preferred provider TCBS is at its ceiling after the previous ticker
\* and VCI is not: VCI has been chosen
C32_Witness ==
    /\ i_pc = "primary"
    /\ preferred_client = "TCBS"
    /\ Len(PruneOld(i_before["TCBS"], i_clock)) >= RateLimitPerMinute
    /\ Len(PruneOld(i_before["VCI"], i_clock)) < RateLimitPerMinute
    /\ i_before["VCI"] # <<>>
    /\ rate_limited["TCBS"]
    /\ primary_name = "VCI"

---------------------------------------------------------------------------
(* The specifications *)

MergeInit ==
    /\ m_pc = "args"
    /\ existing_df \in Archives
    /\ new_df \in Batches
    /\ m_result = <<>>
    /\ m_again = <<>>
    /\ clock = 0
    /\ request_timestamps = <<>>
    /\ grants = <<>>
    /\ f_pc = "idle"
    /\ attempt = 0
    /\ http_log = <<>>
    /\ f_result = Unset
    /\ permits = 0
    /\ delay = 0
    /\ g_pc = "idle"
    /\ g_request = [client |-> "VCI", interval |-> "1D", start |-> 2, end |-> 3]
    /\ g_result = "unset"
    /\ args = [interval |-> "1D", full_download |-> FALSE, long_range |-> FALSE]
    /\ store0 = [t \in TickerSet |-> <<>>]
    /\ store = [t \in TickerSet |-> <<>>]
    /\ chunk_store = [t \in TickerSet |-> [k \in 1..NumChunks |-> <<>>]]
    /\ s_pc = "idle"
    /\ idx = 0
    /\ full_history_set = {}
    /\ batch_results = [t \in TickerSet |-> <<>>]
    /\ batch_requests = <<>>
    /\ client = "VCI"
    /\ ctx = "main"
    /\ stock_df = <<>>
    /\ tried = <<>>
    /\ calls = <<>>
    /\ chunk = 1
    /\ all_chunks = <<>>
    /\ verdicts = <<>>
    /\ stats = NoStats
    /\ handled = [t \in TickerSet |-> 0]
    /\ credited = "none"
    /\ d_pc = "idle"
    /\ d_ticker = "VNINDEX"
    /\ d_existing = <<>>
    /\ d_fresh = <<>>
    /\ d_path = "none"
    /\ d_verdict = FALSE
    /\ n_pc = "idle"
    /\ n_ticker = "VNINDEX"
    /\ n_df = <<>>
    /\ n_once = <<>>
    /\ n_twice = <<>>
    /\ i_pc = "idle"
    /\ i_idx = 0
    /\ i_clock = 0
    /\ i_stamps = [c \in InfoClients |-> <<>>]
    /\ i_before = [c \in InfoClients |-> <<>>]
    /\ preferred_client = "VCI"
    /\ rate_limited = [c \in InfoClients |-> FALSE]
    /\ primary_name = "VCI"
    /\ company_data = "none"
    /\ financial_data = "none"
    /\ data_source = "none"
    /\ previous = NoTicker

RateLimitInit ==
    /\ m_pc = "idle"
    /\ existing_df = <<>>
    /\ new_df = <<>>
    /\ m_result = <<>>
    /\ m_again = <<>>
    /\ clock = 0
    /\ request_timestamps = <<>>
    /\ grants = <<>>
    /\ f_pc = "idle"
    /\ attempt = 0
    /\ http_log = <<>>
    /\ f_result = Unset
    /\ permits = 0
    /\ delay = 0
    /\ g_pc = "idle"
    /\ g_request = [client |-> "VCI", interval |-> "1D", start |-> 2, end |-> 3]
    /\ g_result = "unset"
    /\ args = [interval |-> "1D", full_download |-> FALSE, long_range |-> FALSE]
    /\ store0 = [t \in TickerSet |-> <<>>]
    /\ store = [t \in TickerSet |-> <<>>]
    /\ chunk_store = [t \in TickerSet |-> [k \in 1..NumChunks |-> <<>>]]
    /\ s_pc = "idle"
    /\ idx = 0
    /\ full_history_set = {}
    /\ batch_results = [t \in TickerSet |-> <<>>]
    /\ batch_requests = <<>>
    /\ client = "VCI"
    /\ ctx = "main"
    /\ stock_df = <<>>
    /\ tried = <<>>
    /\ calls = <<>>
    /\ chunk = 1
    /\ all_chunks = <<>>
    /\ verdicts = <<>>
    /\ stats = NoStats
    /\ handled = [t \in TickerSet |-> 0]
    /\ credited = "none"
    /\ d_pc = "idle"
    /\ d_ticker = "VNINDEX"
    /\ d_existing = <<>>
    /\ d_fresh = <<>>
    /\ d_path = "none"
    /\ d_verdict = FALSE
    /\ n_pc = "idle"
    /\ n_ticker = "VNINDEX"
    /\ n_df = <<>>
    /\ n_once = <<>>
    /\ n_twice = <<>>
    /\ i_pc = "idle"
    /\ i_idx = 0
    /\ i_clock = 0
    /\ i_stamps = [c \in InfoClients |-> <<>>]
    /\ i_before = [c \in InfoClients |-> <<>>]
    /\ preferred_client = "VCI"
    /\ rate_limited = [c \in InfoClients |-> FALSE]
    /\ primary_name = "VCI"
    /\ company_data = "none"
    /\ financial_data = "none"
    /\ data_source = "none"
    /\ previous = NoTicker

FetchInit ==
    /\ m_pc = "idle"
    /\ existing_df = <<>>
    /\ new_df = <<>>
    /\ m_result = <<>>
    /\ m_again = <<>>
    /\ clock = 0
    /\ request_timestamps = <<>>
    /\ grants = <<>>
    /\ f_pc = "idle"
    /\ attempt = 0
    /\ http_log = <<>>
    /\ f_result = Unset
    /\ permits = 0
    /\ delay = 0
    /\ g_pc = "args"
    /\ g_request \in HistoryRequests
    /\ g_result = "unset"
    /\ args = [interval |-> "1D", full_download |-> FALSE, long_range |-> FALSE]
    /\ store0 = [t \in TickerSet |-> <<>>]
    /\ store = [t \in TickerSet |-> <<>>]
    /\ chunk_store = [t \in TickerSet |-> [k \in 1..NumChunks |-> <<>>]]
    /\ s_pc = "idle"
    /\ idx = 0
    /\ full_history_set = {}
    /\ batch_results = [t \in TickerSet |-> <<>>]
    /\ batch_requests = <<>>
    /\ client = "VCI"
    /\ ctx = "main"
    /\ stock_df = <<>>
    /\ tried = <<>>
    /\ calls = <<>>
    /\ chunk = 1
    /\ all_chunks = <<>>
    /\ verdicts = <<>>
    /\ stats = NoStats
    /\ handled = [t \in TickerSet |-> 0]
    /\ credited = "none"
    /\ d_pc = "idle"
    /\ d_ticker = "VNINDEX"
    /\ d_existing = <<>>
    /\ d_fresh = <<>>
    /\ d_path = "none"
    /\ d_verdict = FALSE
    /\ n_pc = "idle"
    /\ n_ticker = "VNINDEX"
    /\ n_df = <<>>
    /\ n_once = <<>>
    /\ n_twice = <<>>
    /\ i_pc = "idle"
    /\ i_idx = 0
    /\ i_clock = 0
    /\ i_stamps = [c \in InfoClients |-> <<>>]
    /\ i_before = [c \in InfoClients |-> <<>>]
    /\ preferred_client = "VCI"
    /\ rate_limited = [c \in InfoClients |-> FALSE]
    /\ primary_name = "VCI"
    /\ company_data = "none"
    /\ financial_data = "none"
    /\ data_source = "none"
    /\ previous = NoTicker

DetectInit ==
    /\ m_pc = "idle"
    /\ existing_df = <<>>
    /\ new_df = <<>>
    /\ m_result = <<>>
    /\ m_again = <<>>
    /\ clock = 0
    /\ request_timestamps = <<>>
    /\ grants = <<>>
    /\ f_pc = "idle"
    /\ attempt = 0
    /\ http_log = <<>>
    /\ f_result = Unset
    /\ permits = 0
    /\ delay = 0
    /\ g_pc = "idle"
    /\ g_request = [client |-> "VCI", interval |-> "1D", start |-> 2, end |-> 3]
    /\ g_result = "unset"
    /\ args = [interval |-> "1D", full_download |-> FALSE, long_range |-> FALSE]
    /\ store0 = [t \in TickerSet |-> <<>>]
    /\ store = [t \in TickerSet |-> <<>>]
    /\ chunk_store = [t \in TickerSet |-> [k \in 1..NumChunks |-> <<>>]]
    /\ s_pc = "idle"
    /\ idx = 0
    /\ full_history_set = {}
    /\ batch_results = [t \in TickerSet |-> <<>>]
    /\ batch_requests = <<>>
    /\ client = "VCI"
    /\ ctx = "main"
    /\ stock_df = <<>>
    /\ tried = <<>>
    /\ calls = <<>>
    /\ chunk = 1
    /\ all_chunks = <<>>
    /\ verdicts = <<>>
    /\ stats = NoStats
    /\ handled = [t \in TickerSet |-> 0]
    /\ credited = "none"
    /\ d_pc = "args"
    /\ d_ticker \in TickerSet
    /\ d_existing \in DetectArchives
    /\ d_path \in {"individual", "batch"}
    /\ \E T \in SUBSET CompareDays, level \in FreshLevels, dup \in BOOLEAN :
           d_fresh = FreshFrame(d_ticker, d_path, T, level, dup)
    /\ d_verdict = FALSE
    /\ n_pc = "idle"
    /\ n_ticker = "VNINDEX"
    /\ n_df = <<>>
    /\ n_once = <<>>
    /\ n_twice = <<>>
    /\ i_pc = "idle"
    /\ i_idx = 0
    /\ i_clock = 0
    /\ i_stamps = [c \in InfoClients |-> <<>>]
    /\ i_before = [c \in InfoClients |-> <<>>]
    /\ preferred_client = "VCI"
    /\ rate_limited = [c \in InfoClients |-> FALSE]
    /\ primary_name = "VCI"
    /\ company_data = "none"
    /\ financial_data = "none"
    /\ data_source = "none"
    /\ previous = NoTicker

NormalizeInit ==
    /\ m_pc = "idle"
    /\ existing_df = <<>>
    /\ new_df = <<>>
    /\ m_result = <<>>
    /\ m_again = <<>>
    /\ clock = 0
    /\ request_timestamps = <<>>
    /\ grants = <<>>
    /\ f_pc = "idle"
    /\ attempt = 0
    /\ http_log = <<>>
    /\ f_result = Unset
    /\ permits = 0
    /\ delay = 0
    /\ g_pc = "idle"
    /\ g_request = [client |-> "VCI", interval |-> "1D", start |-> 2, end |-> 3]
    /\ g_result = "unset"
    /\ args = [interval |-> "1D", full_download |-> FALSE, long_range |-> FALSE]
    /\ store0 = [t \in TickerSet |-> <<>>]
    /\ store = [t \in TickerSet |-> <<>>]
    /\ chunk_store = [t \in TickerSet |-> [k \in 1..NumChunks |-> <<>>]]
    /\ s_pc = "idle"
    /\ idx = 0
    /\ full_history_set = {}
    /\ batch_results = [t \in TickerSet |-> <<>>]
    /\ batch_requests = <<>>
    /\ client = "VCI"
    /\ ctx = "main"
    /\ stock_df = <<>>
    /\ tried = <<>>
    /\ calls = <<>>
    /\ chunk = 1
    /\ all_chunks = <<>>
    /\ verdicts = <<>>
    /\ stats = NoStats
    /\ handled = [t \in TickerSet |-> 0]
    /\ credited = "none"
    /\ d_pc = "idle"
    /\ d_ticker = "VNINDEX"
    /\ d_existing = <<>>
    /\ d_path = "none"
    /\ d_fresh = <<>>
    /\ d_verdict = FALSE
    /\ n_pc = "args"
    /\ n_ticker \in NormTickers
    /\ n_df \in NormFrames
    /\ n_once = <<>>
    /\ n_twice = <<>>
    /\ i_pc = "idle"
    /\ i_idx = 0
    /\ i_clock = 0
    /\ i_stamps = [c \in InfoClients |-> <<>>]
    /\ i_before = [c \in InfoClients |-> <<>>]
    /\ preferred_client = "VCI"
    /\ rate_limited = [c \in InfoClients |-> FALSE]
    /\ primary_name = "VCI"
    /\ company_data = "none"
    /\ financial_data = "none"
    /\ data_source = "none"
    /\ previous = NoTicker

InfoInit ==
    /\ m_pc = "idle"
    /\ existing_df = <<>>
    /\ new_df = <<>>
    /\ m_result = <<>>
    /\ m_again = <<>>
    /\ clock = 0
    /\ request_timestamps = <<>>
    /\ grants = <<>>
    /\ f_pc = "idle"
    /\ attempt = 0
    /\ http_log = <<>>
    /\ f_result = Unset
    /\ permits = 0
    /\ delay = 0
    /\ g_pc = "idle"
    /\ g_request = [client |-> "VCI", interval |-> "1D", start |-> 2, end |-> 3]
    /\ g_result = "unset"
    /\ args = [interval |-> "1D", full_download |-> FALSE, long_range |-> FALSE]
    /\ store0 = [t \in TickerSet |-> <<>>]
    /\ store = [t \in TickerSet |-> <<>>]
    /\ chunk_store = [t \in TickerSet |-> [k \in 1..NumChunks |-> <<>>]]
    /\ s_pc = "idle"
    /\ idx = 0
    /\ full_history_set = {}
    /\ batch_results = [t \in TickerSet |-> <<>>]
    /\ batch_requests = <<>>
    /\ client = "VCI"
    /\ ctx = "main"
    /\ stock_df = <<>>
    /\ tried = <<>>
    /\ calls = <<>>
    /\ chunk = 1
    /\ all_chunks = <<>>
    /\ verdicts = <<>>
    /\ stats = NoStats
    /\ handled = [t \in TickerSet |-> 0]
    /\ credited = "none"
    /\ d_pc = "idle"
    /\ d_ticker = "VNINDEX"
    /\ d_existing = <<>>
    /\ d_path = "none"
    /\ d_fresh = <<>>
    /\ d_verdict = FALSE
    /\ n_pc = "idle"
    /\ n_ticker = "VNINDEX"
    /\ n_df = <<>>
    /\ n_once = <<>>
    /\ n_twice = <<>>
    /\ i_pc = "next"
    /\ i_idx = 1
    /\ i_clock = 0
    /\ i_stamps = [c \in InfoClients |-> <<>>]
    /\ i_before = [c \in InfoClients |-> <<>>]
    /\ preferred_client = "VCI"
    /\ rate_limited = [c \in InfoClients |-> FALSE]
    /\ primary_name = "VCI"
    /\ company_data = "none"
    /\ financial_data = "none"
    /\ data_source = "none"
    /\ previous = NoTicker

SyncInit ==
    /\ m_pc = "idle"
    /\ existing_df = <<>>
    /\ new_df = <<>>
    /\ m_result = <<>>
    /\ m_again = <<>>
    /\ clock = 0
    /\ request_timestamps = <<>>
    /\ grants = <<>>
    /\ f_pc = "idle"
    /\ attempt = 0
    /\ http_log = <<>>
    /\ f_result = Unset
    /\ permits = 0
    /\ delay = 0
    /\ g_pc = "idle"
    /\ g_request = [client |-> "VCI", interval |-> "1D", start |-> 2, end |-> 3]
    /\ g_result = "unset"
    /\ args \in RunArgs
    /\ store \in [TickerSet -> StoredArchives]
    /\ store0 = store
    /\ chunk_store = [t \in TickerSet |-> [k \in 1..NumChunks |-> <<>>]]
    /\ s_pc = "start"
    /\ idx = 0
    /\ full_history_set = {}
    /\ batch_results = [t \in TickerSet |-> <<>>]
    /\ batch_requests = <<>>
    /\ client = "VCI"
    /\ ctx = "main"
    /\ stock_df = <<>>
    /\ tried = <<>>
    /\ calls = <<>>
    /\ chunk = 1
    /\ all_chunks = <<>>
    /\ verdicts = <<>>
    /\ stats = NoStats
    /\ handled = [t \in TickerSet |-> 0]
    /\ credited = "none"
    /\ d_pc = "idle"
    /\ d_ticker = "VNINDEX"
    /\ d_existing = <<>>
    /\ d_fresh = <<>>
    /\ d_path = "none"
    /\ d_verdict = FALSE
    /\ n_pc = "idle"
    /\ n_ticker = "VNINDEX"
    /\ n_df = <<>>
    /\ n_once = <<>>
    /\ n_twice = <<>>
    /\ i_pc = "idle"
    /\ i_idx = 0
    /\ i_clock = 0
    /\ i_stamps = [c \in InfoClients |-> <<>>]
    /\ i_before = [c \in InfoClients |-> <<>>]
    /\ preferred_client = "VCI"
    /\ rate_limited = [c \in InfoClients |-> FALSE]
    /\ primary_name = "VCI"
    /\ company_data = "none"
    /\ financial_data = "none"
    /\ data_source = "none"
    /\ previous = NoTicker

MergeSpec     == MergeInit /\ [][MergeNext]_vars
RateLimitSpec == RateLimitInit /\ [][RateLimitNext]_vars
FetchSpec     == FetchInit /\ [][FetchNext]_vars
DetectSpec    == DetectInit /\ [][DetectNext]_vars
NormalizeSpec == NormalizeInit /\ [][NormalizeNext]_vars
InfoSpec      == InfoInit /\ [][InfoNext]_vars
Spec          == SyncInit /\ [][SyncNext]_vars
\* main() is one sequential process: every call returns (each sleep and each
\* retry loop is bounded), so the run always takes its next step
FairSpec      == Spec /\ WF_vars(SyncNext)

=============================================================================
